---- MODULE Spec2Model ----
(***************************************************************************)
(* A state-machine model of QLens: the content-addressed blob stores with  *)
(* reference counts (sled and redb backends), the per-chat history with    *)
(* its compare-and-swap append, the in-band tool-call parser of            *)
(* stream_chat_response, the concurrent tool batch, and the websocket      *)
(* connection handler with its task table.                                 *)
(*                                                                         *)
(* Each subsystem has its own specification (SpecBlob, SpecAppend, ...)    *)
(* over one shared set of variables; a specification leaves the variables  *)
(* of the other subsystems at their idle values.                           *)
(***************************************************************************)
EXTENDS Integers, Sequences, FiniteSets, TLC

VARIABLES
    \* ---- blob store under test (SpecBlob) ----
    kind,        \* StorageKind of the store: "Sled" or "Redb"
    store,       \* [data_tree, rc_tree]: the two keyspaces of one blob store
    oplog,       \* observation: the calls made so far with their results
    \* ---- chat history (SpecAppend) ----
    history,     \* LLMProvider.history: the tree chat_id -> serialized ChatEntry
    appender,    \* the append_message calls in progress, one per caller
    \* ---- one model turn of the stream parser (SpecParser) ----
    desc,        \* what the content stream of the turn is made of
    plan,        \* how the stream is cut into chunks
    rest,        \* the part of the stream not delivered yet
    fed,         \* the number of chunks delivered
    parser,      \* the locals of the turn and the events it has yielded
    ppc,         \* "streaming", "flushed" after the end of the stream, or "idle"
    \* ---- the tool batch of one turn (SpecTools) ----
    turn,        \* the locals of the turn after the flush, and its events
    tool_out,    \* per call: the output of its future once completed
    tool_done,   \* the calls in the order in which their futures completed
    results,     \* what join_all returned and the loop has not consumed yet
    tpc,         \* "flushed", "append", "tools", "results", "done", or "idle"
    \* ---- one websocket connection (SpecSocket) ----
    tasks,       \* handle_socket's table: request_id -> the task under control
    workers,     \* the spawned tasks
    rx,          \* the internal channel: LoopEvents sent and not yet received
    socket_out,  \* the frames written to the websocket
    connected,   \* TRUE while the loop of handle_socket runs
    abort_log,   \* observation: task -> frames written when its Abort was processed
    sending,     \* the InternalMsg taken from rx whose write to the socket is awaited
    \* ---- the provider: history with image and asset stores (SpecChat) ----
    backend,     \* StorageKind of the provider's blob stores
    image,       \* LLMProvider.image
    asset,       \* LLMProvider.asset
    minted,      \* the number of message ids drawn from Uuid::new_v4()
    last_op,     \* observation: what the removing operation just performed did
    chat_ops,    \* the number of calls made on the provider so far
    \* ---- a sled store and a redb store driven by the same calls (SpecTwin) ----
    twin,        \* [sled, redb]: the two stores, with the results of the last call
    \* ---- one run of the JS sandbox (SpecSandbox) ----
    sandbox,     \* the OpState of the run: Counter, DbHandle stores, and what the last op returned
    \* ---- formatting and parsing an AssetId (SpecAssetId) ----
    codec,       \* the id, its text, the form the text is handed over in, the parsed id
    resp,      \* the loop of model requests of one Chat request
    sessions,  \* [sled, redb]: the two session stores, with the results of the last call
    drafts,    \* the messages minted for the chat whose summary is watched
    mixed,     \* the locals of a turn whose stream mixes reasoning and content items
    truncator, \* a truncation of the chat: its position, target, and the entry it read
    reexpose   \* a call of the Image or Asset tool: its position, id, bytes read, content returned

blobVars == <<kind, store, oplog>>

appendVars == <<history, appender>>

parserVars == <<desc, plan, rest, fed, parser, ppc>>

toolsVars == <<turn, tool_out, tool_done, results, tpc>>

socketVars == <<tasks, workers, rx, socket_out, connected, abort_log, sending>>

chatVars == <<backend, image, asset, minted, last_op, chat_ops>>

twinVars == <<twin>>

sandboxVars == <<sandbox>>

assetIdVars == <<codec>>

responseVars == <<resp>>

sessionVars == <<sessions>>

summaryVars == <<drafts>>

mixedVars == <<mixed>>

raceVars == <<truncator>>

reexposeVars == <<reexpose>>

\* what the actions of one subsystem leave alone
notBlobVars == <<appendVars, parserVars, toolsVars, socketVars, chatVars, twinVars, sandboxVars, assetIdVars, responseVars, sessionVars, summaryVars, mixedVars, raceVars, reexposeVars>>

notAppendVars == <<blobVars, parserVars, toolsVars, socketVars, chatVars, twinVars, sandboxVars, assetIdVars, responseVars, sessionVars, summaryVars, mixedVars, raceVars, reexposeVars>>

\* the turn appends its Assistant message to the history
notParserVars == <<blobVars, toolsVars, socketVars, chatVars, twinVars, sandboxVars, assetIdVars, responseVars, sessionVars, summaryVars, mixedVars, raceVars, reexposeVars>>

\* the tool batch appends to the history
notToolsVars == <<blobVars, parserVars, socketVars, chatVars, twinVars, sandboxVars, assetIdVars, responseVars, sessionVars, summaryVars, mixedVars, raceVars, reexposeVars>>

notSocketVars == <<blobVars, appendVars, parserVars, toolsVars, chatVars, twinVars, sandboxVars, assetIdVars, responseVars, sessionVars, summaryVars, mixedVars, raceVars, reexposeVars>>

\* the provider appends to the history
notChatVars == <<blobVars, parserVars, toolsVars, socketVars, twinVars, sandboxVars, assetIdVars, responseVars, sessionVars, summaryVars, mixedVars, raceVars, reexposeVars>>

notTwinVars == <<blobVars, appendVars, parserVars, toolsVars, socketVars, chatVars, sandboxVars, assetIdVars, responseVars, sessionVars, summaryVars, mixedVars, raceVars, reexposeVars>>

notSandboxVars == <<blobVars, appendVars, parserVars, toolsVars, socketVars, chatVars, twinVars, assetIdVars, responseVars, sessionVars, summaryVars, mixedVars, raceVars, reexposeVars>>

notAssetIdVars == <<blobVars, appendVars, parserVars, toolsVars, socketVars, chatVars, twinVars, sandboxVars, responseVars, sessionVars, summaryVars, mixedVars, raceVars, reexposeVars>>

notResponseVars == <<blobVars, parserVars, toolsVars, socketVars, chatVars, twinVars, sandboxVars, assetIdVars, sessionVars, summaryVars, mixedVars, raceVars, reexposeVars>>

notSessionVars == <<blobVars, appendVars, parserVars, toolsVars, socketVars, chatVars, twinVars, sandboxVars, assetIdVars, responseVars, summaryVars, mixedVars, raceVars, reexposeVars>>

notSummaryVars == <<blobVars, parserVars, toolsVars, socketVars, chatVars, twinVars, sandboxVars, assetIdVars, responseVars, sessionVars, mixedVars, raceVars, reexposeVars>>

notMixedVars == <<blobVars, appendVars, parserVars, toolsVars, socketVars, chatVars, twinVars, sandboxVars, assetIdVars, responseVars, sessionVars, summaryVars, raceVars, reexposeVars>>

notRaceVars == <<blobVars, parserVars, toolsVars, socketVars, chatVars, twinVars, sandboxVars, assetIdVars, responseVars, sessionVars, summaryVars, mixedVars, reexposeVars>>

notReexposeVars == <<appendVars, parserVars, toolsVars, socketVars, chatVars, twinVars, sandboxVars, assetIdVars, responseVars, sessionVars, summaryVars, mixedVars, raceVars>>

vars == <<blobVars, appendVars, parserVars, toolsVars, socketVars, chatVars, twinVars, sandboxVars, assetIdVars, responseVars, sessionVars, summaryVars, mixedVars, raceVars, reexposeVars>>

(***************************************************************************)
(* Option values and key/value trees                                       *)
(***************************************************************************)
None == <<>>

Some(v) == <<v>>

IsSome(o) == o # <<>>

Unwrap(o) == o[1]

\* a sled::Tree / redb table: a finite map, here a function on its key set
EmptyTree == <<>>

TreeGet(t, k) == IF k \in DOMAIN t THEN Some(t[k]) ELSE None

TreeInsert(t, k, v) == [x \in (DOMAIN t) \cup {k} |-> IF x = k THEN v ELSE t[x]]

TreeRemove(t, k) == [x \in (DOMAIN t) \ {k} |-> t[x]]

(***************************************************************************)
(* AssetId: the first 20 bytes of the blake3 digest of the content.  The   *)
(* digest is kept symbolic: equal content gives equal ids and, as the      *)
(* store itself assumes, distinct content gives distinct ids.              *)
(***************************************************************************)
from_data(data) == <<"blake3", data>>

(***************************************************************************)
(* Blob store, sled backend                                                *)
(* Every operator takes the store and returns [st |-> store', ret |-> r].  *)
(***************************************************************************)
EmptyStore == [data_tree |-> EmptyTree, rc_tree |-> EmptyTree]

SledBlobStorage_save(st, data) ==
    LET key == from_data(data) IN
    IF IsSome(TreeGet(st.data_tree, key))
    THEN LET old_rc == IF IsSome(TreeGet(st.rc_tree, key))
                       THEN Unwrap(TreeGet(st.rc_tree, key)) ELSE 0
         IN [st |-> [st EXCEPT !.rc_tree = TreeInsert(st.rc_tree, key, old_rc + 1)],
             ret |-> key]
    ELSE [st |-> [data_tree |-> TreeInsert(st.data_tree, key, data),
                  rc_tree |-> TreeInsert(st.rc_tree, key, 1)],
          ret |-> key]

SledBlobStorage_retain(st, uuid) ==
    LET current == IF IsSome(TreeGet(st.rc_tree, uuid))
                   THEN Unwrap(TreeGet(st.rc_tree, uuid)) ELSE 0
    IN [st |-> [st EXCEPT !.rc_tree = TreeInsert(st.rc_tree, uuid, current + 1)],
        ret |-> "Ok"]

\* a release that drops the counter at 1 but leaves the data behind
SledBlobStorage_release_keeps_data(st, uuid) ==
    LET rc_val == TreeGet(st.rc_tree, uuid) IN
    IF IsSome(rc_val)
    THEN IF Unwrap(rc_val) <= 1
         THEN [st |-> [st EXCEPT !.rc_tree = TreeRemove(st.rc_tree, uuid)],
               ret |-> TRUE]
         ELSE [st |-> [st EXCEPT !.rc_tree =
                                   TreeInsert(st.rc_tree, uuid, Unwrap(rc_val) - 1)],
               ret |-> FALSE]
    ELSE [st |-> st, ret |-> FALSE]

SledBlobStorage_release(st, uuid) ==
    LET rc_val == TreeGet(st.rc_tree, uuid) IN
    IF IsSome(rc_val)
    THEN IF Unwrap(rc_val) <= 1
         THEN [st |-> [data_tree |-> TreeRemove(st.data_tree, uuid),
                       rc_tree |-> TreeRemove(st.rc_tree, uuid)],
               ret |-> TRUE]
         ELSE [st |-> [st EXCEPT !.rc_tree =
                                   TreeInsert(st.rc_tree, uuid, Unwrap(rc_val) - 1)],
               ret |-> FALSE]
    ELSE [st |-> st, ret |-> FALSE]

\* trait default get -> get_raw
SledBlobStorage_get(st, uuid) == TreeGet(st.data_tree, uuid)

\* put_raw: data_tree.insert(key, value); the counter is not looked at
SledBlobStorage_put_raw(st, key, value) ==
    [st |-> [st EXCEPT !.data_tree = TreeInsert(st.data_tree, key, value)], ret |-> "Ok"]

\* delete_raw: data_tree.remove(key); the counter is not looked at
SledBlobStorage_delete_raw(st, key) ==
    [st |-> [st EXCEPT !.data_tree = TreeRemove(st.data_tree, key)], ret |-> "Ok"]

(***************************************************************************)
(* Blob store, redb backend                                                *)
(***************************************************************************)
RedbBlobStorage_save(st, data) ==
    LET id == from_data(data)
        current_rc == TreeGet(st.rc_tree, id)
    IN IF IsSome(current_rc)
       THEN [st |-> [st EXCEPT !.rc_tree =
                                 TreeInsert(st.rc_tree, id, Unwrap(current_rc) + 1)],
             ret |-> id]
       ELSE [st |-> [data_tree |-> TreeInsert(st.data_tree, id, data),
                     rc_tree |-> TreeInsert(st.rc_tree, id, 1)],
             ret |-> id]

RedbBlobStorage_retain(st, id) ==
    LET current == IF IsSome(TreeGet(st.rc_tree, id))
                   THEN Unwrap(TreeGet(st.rc_tree, id)) ELSE 0
    IN [st |-> [st EXCEPT !.rc_tree = TreeInsert(st.rc_tree, id, current + 1)],
        ret |-> "Ok"]

RedbBlobStorage_release(st, id) ==
    LET current_rc == IF IsSome(TreeGet(st.rc_tree, id))
                      THEN Unwrap(TreeGet(st.rc_tree, id)) ELSE 0
    IN IF current_rc <= 1
       THEN [st |-> [data_tree |-> TreeRemove(st.data_tree, id),
                     rc_tree |-> TreeRemove(st.rc_tree, id)],
             ret |-> TRUE]
       ELSE [st |-> [st EXCEPT !.rc_tree = TreeInsert(st.rc_tree, id, current_rc - 1)],
             ret |-> FALSE]

RedbBlobStorage_get(st, id) == TreeGet(st.data_tree, id)

\* put_raw: one transaction that inserts into the blob table only
RedbBlobStorage_put_raw(st, key, value) ==
    [st |-> [st EXCEPT !.data_tree = TreeInsert(st.data_tree, key, value)], ret |-> "Ok"]

\* delete_raw: one transaction that removes the key from the blob table and
\* from the counter table
RedbBlobStorage_delete_raw(st, key) ==
    [st |-> [data_tree |-> TreeRemove(st.data_tree, key),
             rc_tree |-> TreeRemove(st.rc_tree, key)], ret |-> "Ok"]

(***************************************************************************)
(* dyn BlobStorage: dispatch on the backend chosen by StorageKind          *)
(***************************************************************************)
StorageKind == {"Sled", "Redb"}

BlobStorage_save(k, st, data) ==
    IF k = "Sled" THEN SledBlobStorage_save(st, data) ELSE RedbBlobStorage_save(st, data)

BlobStorage_retain(k, st, id) ==
    IF k = "Sled" THEN SledBlobStorage_retain(st, id) ELSE RedbBlobStorage_retain(st, id)

BlobStorage_release(k, st, id) ==
    IF k = "Sled" THEN SledBlobStorage_release(st, id) ELSE RedbBlobStorage_release(st, id)

BlobStorage_get(k, st, id) ==
    IF k = "Sled" THEN SledBlobStorage_get(st, id) ELSE RedbBlobStorage_get(st, id)

BlobStorage_put_raw(k, st, key, value) ==
    IF k = "Sled" THEN SledBlobStorage_put_raw(st, key, value)
    ELSE RedbBlobStorage_put_raw(st, key, value)

BlobStorage_delete_raw(k, st, key) ==
    IF k = "Sled" THEN SledBlobStorage_delete_raw(st, key)
    ELSE RedbBlobStorage_delete_raw(st, key)

HasData(st, id) == id \in DOMAIN st.data_tree

HasCounter(st, id) == id \in DOMAIN st.rc_tree

RefCount(st, id) == IF HasCounter(st, id) THEN st.rc_tree[id] ELSE 0

(***************************************************************************)
(* Messages and chat entries (schema).  Text is a sequence of characters.  *)
(***************************************************************************)
Text(s) == [type |-> "Text", text |-> s]

ImageRef(id) == [type |-> "ImageRef", id |-> id]

AssetRef(id) == [type |-> "AssetRef", id |-> id]

\* ImageBin(bytes, AssetId, label): the bytes travel with the id of the image
ImageBin(id) == [type |-> "ImageBin", id |-> id]

Message(id, owner, content, reasoning, tool_use) ==
    [id |-> id, owner |-> owner, content |-> content,
     reasoning |-> reasoning, tool_use |-> tool_use]

ToolsRole(use_id) == <<"Tools", use_id>>

\* ChatEntry::default() with the id overwritten by the chat id
ChatEntry_default(chat_id) == [id |-> chat_id, summary |-> <<>>, messages |-> <<>>]

RECURSIVE Flatten(_)
Flatten(ss) == IF ss = <<>> THEN <<>> ELSE Head(ss) \o Flatten(Tail(ss))

Take(s, n) == IF Len(s) <= n THEN s ELSE SubSeq(s, 1, n)

SUMMARY_LEN == 64

SummaryPart(c) ==
    IF c.type = "Text" THEN c.text
    ELSE IF c.type \in {"ImageBin", "ImageRef"} THEN <<"[", "I", "M", "G", "]">>
    ELSE <<"[", "B", "I", "N", "]">>

SummaryOf(content) ==
    Take(Flatten([i \in 1..Len(content) |-> SummaryPart(content[i])]), SUMMARY_LEN)

\* append_message_to_buffer: the new buffer built from an optional old one
append_message_to_buffer(chat_id, old_buf, content) ==
    LET vec == IF IsSome(old_buf) THEN Unwrap(old_buf) ELSE ChatEntry_default(chat_id)
        summary == IF content.owner = "User" /\ Len(vec.summary) = 0
                   THEN SummaryOf(content.content) ELSE vec.summary
    IN [vec EXCEPT !.summary = summary, !.messages = Append(vec.messages, content)]

(***************************************************************************)
(* LLMProvider::append_message, one step per store access.                 *)
(*   "get": history.get, then the first buffer is built                    *)
(*   "cas": one compare_and_swap attempt of the loop `for _ in 0..10`      *)
(*   "done": returned Ok(current_buf)                                      *)
(***************************************************************************)
CAS_ATTEMPTS == 10

\* the expected value handed to compare_and_swap on a retry: old_buf
cas_expected(a) == a.old_buf

\* one pass of the loop `for _ in 0..10` of a call `a` that has done its
\* get: compare_and_swap(chat_id, old_buf, Some(current_buf)) against the
\* history as it is at that pass.  Ok(()) leaves the loop; Err(e) rebuilds
\* current_buf from e.current, and the tenth pass is the last
append_cas(h, chat_id, a) ==
    LET current == TreeGet(h, chat_id) IN
    IF current = cas_expected(a)
    THEN [history |-> TreeInsert(h, chat_id, a.current_buf),
          call |-> [a EXCEPT !.pc = "done"]]
    ELSE [history |-> h,
          call |-> [a EXCEPT !.current_buf =
                                 append_message_to_buffer(chat_id, current, a.content),
                             !.attempts = a.attempts + 1,
                             !.pc = IF a.attempts + 1 = CAS_ATTEMPTS
                                    THEN "done" ELSE "cas"]]

AppendGet(p, chat_id) ==
    /\ appender[p].pc = "get"
    /\ LET old_buf == TreeGet(history, chat_id) IN
       appender' = [appender EXCEPT ![p] =
           [@ EXCEPT !.pc = "cas", !.old_buf = old_buf,
                     !.current_buf = append_message_to_buffer(chat_id, old_buf,
                                                              appender[p].content)]]
    /\ UNCHANGED <<history, notAppendVars>>

AppendCas(p, chat_id) ==
    /\ appender[p].pc = "cas"
    /\ LET r == append_cas(history, chat_id, appender[p]) IN
       /\ history' = r.history
       /\ appender' = [appender EXCEPT ![p] = r.call]
    /\ UNCHANGED notAppendVars

\* append_message up to its first compare_and_swap: history.get and the
\* first buffer
append_get(h, chat_id, content) ==
    [pc |-> "cas", content |-> content, old_buf |-> TreeGet(h, chat_id),
     current_buf |-> append_message_to_buffer(chat_id, TreeGet(h, chat_id), content),
     attempts |-> 0]

\* an append_message call that has not read the history yet
append_start(chat_id, content) ==
    [pc |-> "get", content |-> content, old_buf |-> None,
     current_buf |-> ChatEntry_default(chat_id), attempts |-> 0]

\* what append_message returns once its loop is left, by `break` or after the
\* last of the CAS_ATTEMPTS passes: Ok(serde_json::from_slice(&current_buf)?)
append_message_return(a) == [tag |-> "Ok", entry |-> a.current_buf]

(***************************************************************************)
(* SpecAppend: concurrent append_message calls on one chat.                *)
(***************************************************************************)
\* number of concurrent callers of append_message
NumAppenders == 2

\* number of messages persisted in the chat before the calls start
MaxPrior == 2

Appenders == 1..NumAppenders

TheChat == "chat"

NewMessage(p) ==
    Message(<<"new", p>>, IF p = 1 THEN "User" ELSE "Assistant",
            <<Text(<<"m", p>>)>>, <<>>, <<>>)

PriorMessage(i) ==
    Message(<<"old", i>>, IF i % 2 = 1 THEN "User" ELSE "Assistant",
            <<Text(<<"o", i>>)>>, <<>>, <<>>)

RECURSIVE PriorEntry(_)
PriorEntry(n) ==
    IF n = 0 THEN ChatEntry_default(TheChat)
    ELSE append_message_to_buffer(TheChat, Some(PriorEntry(n - 1)), PriorMessage(n))

AppenderStart(p) ==
    [pc |-> "get", content |-> NewMessage(p), old_buf |-> None,
     current_buf |-> ChatEntry_default(TheChat), attempts |-> 0]

AppendInit ==
    /\ \/ history = EmptyTree
       \/ \E n \in 0..MaxPrior : history = TreeInsert(EmptyTree, TheChat, PriorEntry(n))
    /\ appender = [p \in Appenders |-> AppenderStart(p)]

AppendIdle ==
    /\ history = EmptyTree
    /\ appender = <<>>

AppendNext ==
    \/ \E p \in Appenders : AppendGet(p, TheChat)
    \/ \E p \in Appenders : AppendCas(p, TheChat)

(***************************************************************************)
(* SpecBlob: one blob store, starting empty, driven by any sequence of     *)
(* save / retain / release calls.                                          *)
(***************************************************************************)
\* number of calls applied to the store
MaxOps == 5

\* the payloads a caller may save; ids are the digests of these
BlobPayloads == {<<1>>, <<2, 3>>}

BlobIds == {from_data(d) : d \in BlobPayloads}

LogEntry(op, id, before, res) ==
    [op |-> op, id |-> id, ret |-> res.ret,
     had_counter |-> HasCounter(before, id),
     had_data |-> HasData(before, id),
     data_after |-> TreeGet(res.st.data_tree, id),
     rc_after |-> TreeGet(res.st.rc_tree, id)]

BlobInit ==
    /\ kind \in StorageKind
    /\ store = EmptyStore
    /\ oplog = <<>>

BlobIdle ==
    /\ kind = "Sled"
    /\ store = EmptyStore
    /\ oplog = <<>>

Save(data) ==
    /\ Len(oplog) < MaxOps
    /\ LET res == BlobStorage_save(kind, store, data) IN
       /\ store' = res.st
       /\ oplog' = Append(oplog, LogEntry("save", from_data(data), store, res))
    /\ UNCHANGED <<kind, notBlobVars>>

Retain(id) ==
    /\ Len(oplog) < MaxOps
    /\ LET res == BlobStorage_retain(kind, store, id) IN
       /\ store' = res.st
       /\ oplog' = Append(oplog, LogEntry("retain", id, store, res))
    /\ UNCHANGED <<kind, notBlobVars>>

Release(id) ==
    /\ Len(oplog) < MaxOps
    /\ LET res == BlobStorage_release(kind, store, id) IN
       /\ store' = res.st
       /\ oplog' = Append(oplog, LogEntry("release", id, store, res))
    /\ UNCHANGED <<kind, notBlobVars>>

PutRaw(key, value) ==
    /\ Len(oplog) < MaxOps
    /\ LET res == BlobStorage_put_raw(kind, store, key, value) IN
       /\ store' = res.st
       /\ oplog' = Append(oplog, LogEntry("put_raw", key, store, res))
    /\ UNCHANGED <<kind, notBlobVars>>

DeleteRaw(key) ==
    /\ Len(oplog) < MaxOps
    /\ LET res == BlobStorage_delete_raw(kind, store, key) IN
       /\ store' = res.st
       /\ oplog' = Append(oplog, LogEntry("delete_raw", key, store, res))
    /\ UNCHANGED <<kind, notBlobVars>>

BlobNext ==
    \/ \E d \in BlobPayloads : Save(d)
    \/ \E id \in BlobIds : Retain(id)
    \/ \E id \in BlobIds : Release(id)
    \/ \E key \in BlobIds, value \in BlobPayloads : PutRaw(key, value)
    \/ \E key \in BlobIds : DeleteRaw(key)

(***************************************************************************)
(* Text.  A string is a sequence of characters; a character is a one-      *)
(* character string.  Two characters of the program are not ASCII and are  *)
(* written here with stand-ins: "@" is U+273F (the flower that brackets    *)
(* the sentinels) and "%" is U+FF1A (the full-width colon).  Both take 3   *)
(* bytes in UTF-8, every other character of the model takes 1.             *)
(***************************************************************************)
FN_TAG == "@"

FULLWIDTH_COLON == "%"

\* A character is a one-character ASCII string; FN_TAG and FULLWIDTH_COLON
\* stand for U+273F and U+FF1A, and "U+XXXX" names another code point.
\* The printable ASCII characters from U+0020 to U+007E, in order; the percent
\* sign and the at sign, whose strings stand for other characters, and the
\* grave accent go by name
AsciiPrintable ==
    <<" ", "!", "\"", "#", "$", "U+0025", "&", "'", "(", ")", "*", "+",
      ",", "-", ".", "/", "0", "1", "2", "3", "4", "5", "6", "7", "8", "9",
      ":", ";", "<", "=", ">", "?", "U+0040", "A", "B", "C", "D", "E", "F",
      "G", "H", "I", "J", "K", "L", "M", "N", "O", "P", "Q", "R", "S", "T",
      "U", "V", "W", "X", "Y", "Z", "[", "\\", "]", "^", "_", "U+0060", "a",
      "b", "c", "d", "e", "f", "g", "h", "i", "j", "k", "l", "m", "n", "o",
      "p", "q", "r", "s", "t", "u", "v", "w", "x", "y", "z", "{", "|", "}",
      "~">>

\* the code point of a character; a string that is none of these characters
\* has none
CodePoint(c) ==
    CASE \E i \in 1..Len(AsciiPrintable) : AsciiPrintable[i] = c
             -> 31 + (CHOOSE i \in 1..Len(AsciiPrintable) : AsciiPrintable[i] = c)
      [] c = FN_TAG -> 10047
      [] c = FULLWIDTH_COLON -> 65306
      [] c = "\t" -> 9
      [] c = "\n" -> 10
      [] c = "\f" -> 12
      [] c = "\r" -> 13
      [] c = "U+0008" -> 8
      [] c = "U+000B" -> 11
      [] c = "U+000C" -> 12
      [] c = "U+0085" -> 133
      [] c = "U+00A0" -> 160
      [] c = "U+00E9" -> 233
      [] c = "U+1680" -> 5760
      [] c = "U+2000" -> 8192
      [] c = "U+2001" -> 8193
      [] c = "U+2002" -> 8194
      [] c = "U+2003" -> 8195
      [] c = "U+2004" -> 8196
      [] c = "U+2005" -> 8197
      [] c = "U+2006" -> 8198
      [] c = "U+2007" -> 8199
      [] c = "U+2008" -> 8200
      [] c = "U+2009" -> 8201
      [] c = "U+200A" -> 8202
      [] c = "U+2028" -> 8232
      [] c = "U+2029" -> 8233
      [] c = "U+202F" -> 8239
      [] c = "U+205F" -> 8287
      [] c = "U+3000" -> 12288
      [] c = "U+4E2D" -> 20013
      [] c = "U+1F600" -> 128512

\* the characters of the model
Chars ==
    {AsciiPrintable[i] : i \in 1..Len(AsciiPrintable)}
        \cup {FN_TAG, FULLWIDTH_COLON, "\t", "\n", "\f", "\r", "U+0008", "U+000B",
              "U+000C", "U+0085", "U+00A0", "U+00E9", "U+1680", "U+2000", "U+2001",
              "U+2002", "U+2003", "U+2004", "U+2005", "U+2006", "U+2007", "U+2008",
              "U+2009", "U+200A", "U+2028", "U+2029", "U+202F", "U+205F", "U+3000",
              "U+4E2D", "U+1F600"}

\* char::from_u32, for the code points the model has a character for
char_from_u32(cp) == CHOOSE c \in Chars : CodePoint(c) = cp

\* char::len_utf8
Utf8Len(c) ==
    LET cp == CodePoint(c)
    IN IF cp < 128 THEN 1 ELSE IF cp < 2048 THEN 2 ELSE IF cp < 65536 THEN 3 ELSE 4

\* String::len(): the length in bytes
RECURSIVE ByteLen(_)
ByteLen(s) == IF s = <<>> THEN 0 ELSE Utf8Len(Head(s)) + ByteLen(Tail(s))

\* char::encode_utf8
encode_utf8(c) ==
    LET cp == CodePoint(c) IN
    IF cp < 128 THEN <<cp>>
    ELSE IF cp < 2048 THEN <<192 + (cp \div 64), 128 + (cp % 64)>>
    ELSE IF cp < 65536
    THEN <<224 + (cp \div 4096), 128 + ((cp \div 64) % 64), 128 + (cp % 64)>>
    ELSE <<240 + (cp \div 262144), 128 + ((cp \div 4096) % 64),
           128 + ((cp \div 64) % 64), 128 + (cp % 64)>>

\* the bytes of the characters lo..hi of a text
RECURSIVE BytesOf(_, _, _)
BytesOf(text, lo, hi) ==
    IF lo > hi THEN <<>>
    ELSE IF lo = hi THEN encode_utf8(text[lo])
    ELSE LET mid == (lo + hi) \div 2
         IN BytesOf(text, lo, mid) \o BytesOf(text, mid + 1, hi)

\* str::as_bytes: the UTF-8 bytes of a text
as_bytes(text) == BytesOf(text, 1, Len(text))

\* a loop `for i in lo..=hi { acc = Op(acc, i) }`; the range is halved so
\* that long texts need no deep nesting, the steps are taken in order
RECURSIVE FoldRange(_, _, _, _)
FoldRange(Op(_, _), acc, lo, hi) ==
    IF lo > hi THEN acc
    ELSE IF lo = hi THEN Op(acc, lo)
    ELSE LET mid == (lo + hi) \div 2
             left == FoldRange(Op, acc, lo, mid)
         IN IF left = left THEN FoldRange(Op, left, mid + 1, hi) ELSE left

\* `let value = ...;` followed by the code that uses the value: the value is
\* worked out once, Body is the code after the let
With(value, Body(_)) == Body(value)

\* F(x), looked up in the table of the values worked out before where the
\* table has it
Memo(table, F(_), x) == IF x \in DOMAIN table THEN table[x] ELSE F(x)

Drop(s, n) == SubSeq(s, n + 1, Len(s))

MinOf(S) == CHOOSE i \in S : \A j \in S : i <= j

MaxOf(S) == CHOOSE i \in S : \A j \in S : i >= j

\* str::find: the first position (0-based, in characters) where pat occurs
Matches(buf, pat) ==
    {i \in 0..(Len(buf) - Len(pat)) : SubSeq(buf, i + 1, i + Len(pat)) = pat}

Find(buf, pat) == IF Matches(buf, pat) = {} THEN None ELSE Some(MinOf(Matches(buf, pat)))

\* char::is_whitespace: the characters with the White_Space property
WhiteSpace ==
    {"\t", "\n", "U+000B", "U+000C", "\f", "\r", " ", "U+0085", "U+00A0", "U+1680",
     "U+2000", "U+2001", "U+2002", "U+2003", "U+2004", "U+2005", "U+2006", "U+2007",
     "U+2008", "U+2009", "U+200A", "U+2028", "U+2029", "U+202F", "U+205F", "U+3000"}

IsWhitespace(c) == c \in WhiteSpace

RECURSIVE TrimStartBy(_, _)
TrimStartBy(s, cs) ==
    IF s # <<>> /\ Head(s) \in cs THEN TrimStartBy(Tail(s), cs) ELSE s

RECURSIVE TrimEndBy(_, _)
TrimEndBy(s, cs) ==
    IF s # <<>> /\ s[Len(s)] \in cs THEN TrimEndBy(SubSeq(s, 1, Len(s) - 1), cs) ELSE s

\* str::trim
Trim(s) == TrimEndBy(TrimStartBy(s, WhiteSpace), WhiteSpace)

\* str::trim_matches(c)
TrimMatches(s, c) == TrimEndBy(TrimStartBy(s, {c}), {c})

\* str::to_lowercase, String.prototype.toLowerCase: of the characters of the
\* model only the ASCII capitals have a lower-case form
AsciiUpper ==
    <<"A", "B", "C", "D", "E", "F", "G", "H", "I", "J", "K", "L", "M", "N",
    "O", "P", "Q", "R", "S", "T", "U", "V", "W", "X", "Y", "Z">>

AsciiLower ==
    <<"a", "b", "c", "d", "e", "f", "g", "h", "i", "j", "k", "l", "m", "n",
    "o", "p", "q", "r", "s", "t", "u", "v", "w", "x", "y", "z">>

to_lowercase(s) ==
    [i \in 1..Len(s) |->
        IF \E d \in 1..Len(AsciiUpper) : AsciiUpper[d] = s[i]
        THEN AsciiLower[CHOOSE d \in 1..Len(AsciiUpper) : AsciiUpper[d] = s[i]]
        ELSE s[i]]

\* .trim().trim_matches(':').trim_matches('：').trim()
StripNameOrArgs(raw) == Trim(TrimMatches(TrimMatches(Trim(raw), ":"), FULLWIDTH_COLON))

(***************************************************************************)
(* The sentinels of the in-band tool-call protocol                         *)
(***************************************************************************)
FN_NAME == <<"@", "F", "U", "N", "C", "T", "I", "O", "N", "@">>

FN_ARGS == <<"@", "A", "R", "G", "S", "@">>

FN_RESULT == <<"@", "R", "E", "S", "U", "L", "T", "@">>

FN_EXIT == <<"@", "R", "E", "T", "U", "R", "N", "@">>

FN_STOP_WORDS == <<FN_NAME, FN_ARGS, FN_RESULT, FN_EXIT>>

FN_MAX_LEN == ByteLen(FN_NAME) * 2 + 6

(***************************************************************************)
(* ChatEvent                                                               *)
(***************************************************************************)
ReasoningDelta(s) == [type |-> "ReasoningDelta", text |-> s]

ContentDelta(s) == [type |-> "ContentDelta", text |-> s]

ToolDelta(s) == [type |-> "ToolDelta", text |-> s]

ToolCall(tool_use) == [type |-> "ToolCall", tool_use |-> tool_use]

ToolUse(use_id, function_name, args) ==
    [use_id |-> use_id, function_name |-> function_name, args |-> args]

(***************************************************************************)
(* The parser of stream_chat_response.  Its state is the locals of one     *)
(* model turn; `events` collects what the turn yields, `minted` counts the *)
(* ids drawn from Uuid::new_v4() for tool uses, and `drained` lists what   *)
(* parse_buffer.drain(..) took out of the buffer, in order, with the use   *)
(* the parser made of it: "text", "sentinel", "name" or "args".            *)
(***************************************************************************)
Drained(r, use, text) == [r EXCEPT !.drained = Append(@, [use |-> use, text |-> text])]

ParserStart(turn_no) ==
    [state |-> "AwaitingDecision",
     parse_buffer |-> <<>>,
     assistant_thinking |-> <<>>,
     assistant_reasoning |-> <<>>,
     assistant_content |-> <<>>,
     assistant_tool_calls |-> <<>>,
     current_tool_name |-> <<>>,
     turn |-> turn_no,
     events |-> <<>>,
     drained |-> <<>>]

Yield(r, ev) == [r EXCEPT !.events = Append(@, ev)]

\* Uuid::new_v4() for the next tool use of the turn: a fresh id
NewUseId(r) == <<"use", r.turn, Len(r.assistant_tool_calls) + 1>>

\* non-tool text, classified by whether assistant_reasoning is still empty;
\* `sink` names the accumulator the reasoning case pushes to
EmitText(r, part, sink) ==
    Drained(IF r.assistant_reasoning = <<>>
            THEN Yield([r EXCEPT !.assistant_content = @ \o part], ContentDelta(part))
            ELSE IF sink = "reasoning"
                 THEN Yield([r EXCEPT !.assistant_reasoning = @ \o part],
                            ReasoningDelta(part))
                 ELSE Yield([r EXCEPT !.assistant_thinking = @ \o part],
                            ReasoningDelta(part)),
            "text", part)

\* the largest char boundary at or before byte offset n
CharBoundaryBefore(buf, n) ==
    MaxOf({k \in 0..Len(buf) : ByteLen(SubSeq(buf, 1, k)) <= n})

\* the stop words found in the buffer, as <<idx, position in FN_STOP_WORDS>>
StopHits(buf) ==
    {<<Unwrap(Find(buf, FN_STOP_WORDS[t])), t>> :
        t \in {u \in 1..Len(FN_STOP_WORDS) : IsSome(Find(buf, FN_STOP_WORDS[u]))}}

\* a selection by the order of FN_STOP_WORDS instead of the position in the buffer
next_stop_first_listed(buf) ==
    IF StopHits(buf) = {} THEN None
    ELSE LET t == MinOf({h[2] : h \in StopHits(buf)})
             h == CHOOSE x \in StopHits(buf) : x[2] = t
         IN Some([idx |-> h[1], tag |-> FN_STOP_WORDS[t]])

\* .filter_map(find).min_by_key(idx): the earliest stop word (the first listed on a tie)
next_stop(buf) ==
    IF StopHits(buf) = {} THEN None
    ELSE LET i == MinOf({h[1] : h \in StopHits(buf)})
             t == MinOf({h[2] : h \in {x \in StopHits(buf) : x[1] = i}})
         IN Some([idx |-> i, tag |-> FN_STOP_WORDS[t]])

AwaitingDecisionHit(r, idx) ==
    LET reasoning_part == SubSeq(r.parse_buffer, 1, idx)
        r1 == [r EXCEPT !.parse_buffer = Drop(@, idx + Len(FN_NAME))]
        r2 == IF reasoning_part # <<>> THEN EmitText(r1, reasoning_part, "reasoning") ELSE r1
    IN [Drained(Yield(r2, ToolDelta(FN_NAME)), "sentinel", FN_NAME)
           EXCEPT !.state = "ToolCallName"]

AwaitingDecisionOverflow(r) ==
    LET yield_len_bytes == ByteLen(r.parse_buffer) - (FN_MAX_LEN \div 2)
        split_idx == CharBoundaryBefore(r.parse_buffer, yield_len_bytes)
    IN IF split_idx > 0
       THEN EmitText([r EXCEPT !.parse_buffer = Drop(@, split_idx)],
                     SubSeq(r.parse_buffer, 1, split_idx), "thinking")
       ELSE r

ToolCallNameHit(r, idx) ==
    LET name_part_raw == SubSeq(r.parse_buffer, 1, idx)
        delta == name_part_raw \o FN_ARGS
    IN Yield([Drained(Drained(r, "name", name_part_raw), "sentinel", FN_ARGS)
                 EXCEPT !.parse_buffer = Drop(@, idx + Len(FN_ARGS)),
                        !.current_tool_name = StripNameOrArgs(name_part_raw),
                        !.assistant_reasoning = @ \o delta,
                        !.state = "ToolCallArgs"],
             ToolDelta(delta))

ToolCallArgsHit(r, stop) ==
    LET args_part_raw == SubSeq(r.parse_buffer, 1, stop.idx)
        tool_use == ToolUse(NewUseId(r), r.current_tool_name, StripNameOrArgs(args_part_raw))
        r1 == Yield([Drained(Drained(r, "args", args_part_raw), "sentinel", stop.tag)
                        EXCEPT !.parse_buffer = Drop(@, stop.idx + Len(stop.tag)),
                               !.assistant_reasoning = @ \o args_part_raw,
                               !.assistant_tool_calls = Append(@, tool_use)],
                    ToolCall(tool_use))
        r2 == IF stop.tag # FN_EXIT THEN Yield(r1, ToolDelta(stop.tag)) ELSE r1
    IN [r2 EXCEPT !.state = IF stop.tag = FN_NAME THEN "ToolCallName"
                            ELSE "AwaitingDecision"]

\* 'parse_loop: runs until a state finds nothing more to do in the buffer;
\* `content` is the chunk that was just pushed
RECURSIVE parse_loop(_, _)
parse_loop(r, content) ==
    IF r.state = "AwaitingDecision"
    THEN IF IsSome(Find(r.parse_buffer, FN_NAME))
         THEN parse_loop(AwaitingDecisionHit(r, Unwrap(Find(r.parse_buffer, FN_NAME))),
                         content)
         ELSE IF ByteLen(r.parse_buffer) > FN_MAX_LEN
              THEN parse_loop(AwaitingDecisionOverflow(r), content)
              ELSE r
    ELSE IF r.state = "ToolCallName"
    THEN IF IsSome(Find(r.parse_buffer, FN_ARGS))
         THEN parse_loop(ToolCallNameHit(r, Unwrap(Find(r.parse_buffer, FN_ARGS))), content)
         ELSE r
    ELSE LET r1 == Yield(r, ToolDelta(content))
         IN IF IsSome(next_stop(r1.parse_buffer))
            THEN parse_loop(ToolCallArgsHit(r1, Unwrap(next_stop(r1.parse_buffer))), content)
            ELSE r1

\* one stream item carrying delta.content
on_content(r, content) ==
    parse_loop([r EXCEPT !.parse_buffer = @ \o content], content)

\* a flush that drops what is left in the buffer
end_of_stream_drops_rest(r) == r

\* the match on `state` after the stream has ended
end_of_stream(r) ==
    IF r.state \in {"AwaitingDecision", "Content", "ToolCallName"}
    THEN IF r.parse_buffer # <<>>
         THEN [EmitText(r, r.parse_buffer, "thinking") EXCEPT !.parse_buffer = <<>>]
         ELSE r
    ELSE LET tool_use == ToolUse(NewUseId(r), r.current_tool_name,
                                 StripNameOrArgs(r.parse_buffer))
             r1 == Yield([Drained(r, "args", r.parse_buffer)
                             EXCEPT !.assistant_reasoning = @ \o r.parse_buffer,
                                    !.parse_buffer = <<>>],
                         ToolDelta(r.parse_buffer))
         IN Yield([r1 EXCEPT !.assistant_tool_calls = Append(@, tool_use)],
                  ToolCall(tool_use))

\* the parser run over a whole list of chunks, then flushed
RECURSIVE parse_chunks(_, _)
parse_chunks(r, chunks) ==
    IF chunks = <<>> THEN end_of_stream(r)
    ELSE parse_chunks(on_content(r, Head(chunks)), Tail(chunks))

(***************************************************************************)
(* One model turn of stream_chat_response, driven by a content stream.     *)
(* The stream is described by what it is made of (text, calls, a dangling  *)
(* FN_NAME without FN_ARGS), so that the calls a parser ought to find are  *)
(* known independently of the parser; the chunking is fixed when the turn  *)
(* starts: a first chunk of `first` characters (0: an empty delta), then   *)
(* chunks of `size` characters (0: all the rest in one chunk).             *)
(***************************************************************************)
MaxCalls == 2

MaxFirstChunk == 2

MaxChunk == 3

RawCall(name_raw, name, args_raw, args, term, after) ==
    [name_raw |-> name_raw, name |-> name, args_raw |-> args_raw, args |-> args,
     term |-> term, after |-> after]

\* an odd call is "<FN_NAME>: zm\n<FN_ARGS>: {1}\n", an even one "<FN_NAME>% js<FN_ARGS> q: "
CallAt(i, term, after) ==
    IF i % 2 = 1
    THEN RawCall(<<":", " ", "z", "m", "\n">>, <<"z", "m">>,
                 <<":", " ", "{", "1", "}", "\n">>, <<"{", "1", "}">>, term, after)
    ELSE RawCall(<<FULLWIDTH_COLON, " ", "j", "s">>, <<"j", "s">>,
                 <<" ", "q", ":", " ">>, <<"q">>, term, after)

\* a text longer than FN_MAX_LEN bytes
LongText == [i \in 1..(FN_MAX_LEN + 2) |-> IF i % 5 = 0 THEN " " ELSE "a"]

\* how a call ends: at the next FN_NAME or the end of the stream (no
\* terminator), at FN_EXIT alone, at FN_EXIT followed by a short or a long
\* text, or at FN_RESULT followed by text
CallEndings ==
    {[term |-> <<>>, after |-> <<>>],
     [term |-> FN_EXIT, after |-> <<>>],
     [term |-> FN_EXIT, after |-> <<"o", "k">>],
     [term |-> FN_EXIT, after |-> LongText],
     [term |-> FN_RESULT, after |-> <<"r", "1", "\n">>]}

\* a text of 3-byte characters, longer than FN_MAX_LEN bytes
WideText == [i \in 1..12 |-> "U+4E2D"]

\* a text that ends like the beginning of FN_NAME
OverlapText == SubSeq(FN_NAME, 1, Len(FN_NAME) - 1)

PreTexts == {<<>>, <<"h", "i", " ">>, LongText, WideText, OverlapText}

CallSeqs ==
    UNION {{[i \in 1..k |-> CallAt(i, e[i].term, e[i].after)] : e \in [1..k -> CallEndings]}
              : k \in 0..MaxCalls}

\* dangling = TRUE: the stream ends with FN_NAME and a name, without FN_ARGS
StreamDescs ==
    {[pre |-> p, calls |-> cs, dangling |-> d, dangling_name |-> <<" ", "n", "m">>] :
        p \in PreTexts, cs \in CallSeqs, d \in BOOLEAN}

CallText(c) == FN_NAME \o c.name_raw \o FN_ARGS \o c.args_raw \o c.term \o c.after

RECURSIVE CallsText(_)
CallsText(cs) == IF cs = <<>> THEN <<>> ELSE CallText(Head(cs)) \o CallsText(Tail(cs))

StreamText(d) ==
    d.pre \o CallsText(d.calls) \o (IF d.dangling THEN FN_NAME \o d.dangling_name ELSE <<>>)

ChunkPlans == [first : 0..MaxFirstChunk, size : 0..MaxChunk]

Min(a, b) == IF a <= b THEN a ELSE b

NextChunkLen ==
    IF fed = 0 THEN Min(plan.first, Len(rest))
    ELSE IF plan.size = 0 THEN Len(rest) ELSE Min(plan.size, Len(rest))

(***************************************************************************)
(* The Assistant message of a turn, appended after the end-of-stream flush *)
(***************************************************************************)
\* LLMProvider::append_message when no other writer interferes: history.get,
\* then a compare_and_swap that succeeds at the first attempt
append_message(h, chat_id, message) ==
    append_cas(h, chat_id, append_get(h, chat_id, message)).history

\* the Message built from the accumulators of the turn; `id` is Uuid::new_v4()
assistant_message(r, id) ==
    Message(id, "Assistant",
            IF r.assistant_content # <<>> THEN <<Text(r.assistant_content)>> ELSE <<>>,
            IF r.assistant_thinking # <<>> THEN <<Text(r.assistant_thinking)>> ELSE <<>>,
            r.assistant_tool_calls)

\* the turn starts on a chat that holds the User message of the request
ParserInit ==
    /\ desc \in StreamDescs
    /\ plan \in ChunkPlans
    /\ rest = StreamText(desc)
    /\ fed = 0
    /\ parser = ParserStart(1)
    /\ ppc = "streaming"
    /\ history = TreeInsert(EmptyTree, TheChat, PriorEntry(1))
    /\ appender = <<>>

ParserIdle ==
    /\ desc = [pre |-> <<>>, calls |-> <<>>, dangling |-> FALSE, dangling_name |-> <<>>]
    /\ plan = [first |-> 0, size |-> 0]
    /\ rest = <<>>
    /\ fed = 0
    /\ parser = ParserStart(0)
    /\ ppc = "idle"

\* stream.next() returned a chunk with delta.content
OnContent ==
    /\ ppc = "streaming"
    /\ rest # <<>> \/ (fed = 0 /\ plan.first = 0)
    /\ parser' = on_content(parser, SubSeq(rest, 1, NextChunkLen))
    /\ rest' = Drop(rest, NextChunkLen)
    /\ fed' = fed + 1
    /\ UNCHANGED <<desc, plan, ppc, appendVars, notParserVars>>

\* stream.next() returned None
EndOfStream ==
    /\ ppc = "streaming"
    /\ rest = <<>>
    /\ ~(fed = 0 /\ plan.first = 0)
    /\ parser' = end_of_stream(parser)
    /\ ppc' = "flushed"
    /\ UNCHANGED <<desc, plan, rest, fed, appendVars, notParserVars>>

\* the Assistant message of the turn is appended; without tool calls the loop
\* breaks after this one model request and the stream of the turn ends,
\* otherwise the tool batch follows (SpecTools)
PersistTurn ==
    /\ ppc = "flushed"
    /\ history' = append_message(history, TheChat, assistant_message(parser, <<"msg", 0>>))
    /\ ppc' = IF parser.assistant_tool_calls = <<>> THEN "done" ELSE "tools"
    /\ UNCHANGED <<desc, plan, rest, fed, parser, appender, notParserVars>>

StreamEnd == [type |-> "StreamEnd"]

\* handle_stream: the stream of the turn returned None, the StreamEnd packet is
\* sent after the packets of the events of the turn
StreamEnds ==
    /\ ppc = "done"
    /\ parser' = Yield(parser, StreamEnd)
    /\ ppc' = "ended"
    /\ UNCHANGED <<desc, plan, rest, fed, appendVars, notParserVars>>

ParserNext == OnContent \/ EndOfStream \/ PersistTurn \/ StreamEnds

(***************************************************************************)
(* The rest of one iteration of the turn loop of stream_chat_response,     *)
(* after the end-of-stream flush: the assistant message is appended, the   *)
(* tool calls run concurrently under join_all, and each result is yielded  *)
(* and appended.                                                           *)
(***************************************************************************)
ToolResult(tool_use, result) ==
    [type |-> "ToolResult", tool_use |-> tool_use, result |-> result]

\* the names registered in the tool set
ToolNames == {<<"z", "m">>}

\* format!: the text of the result of a call to a tool that is not registered
ToolNotFound(function_name) ==
    <<"n", "o", "t", " ", "f", "o", "u", "n", "d", " ">> \o function_name

\* format!: the text of the result of a call whose handler returned Err(e)
ToolFailed(function_name, e) ==
    <<"f", "a", "i", "l", "e", "d", " ">> \o function_name \o <<" ">> \o e

\* what tool.call(args) may return: Ok(content), with one part or with
\* several, or Err(e)
ToolOutcomes ==
    {[tag |-> "Ok", content |-> <<Text(<<"d", "o", "n", "e">>)>>],
     [tag |-> "Ok", content |-> <<Text(<<"d", "o", "n", "e">>), Text(<<"l", "o", "g">>)>>],
     [tag |-> "Err", e |-> <<"e", "r", "r">>]}

\* a tool set whose failures leave the result without content
use_tool_async_silent(tool_use, outcome, id) ==
    [tool_use |-> tool_use,
     message |-> Message(id, ToolsRole(tool_use.use_id),
                         IF tool_use.function_name \in ToolNames /\ outcome.tag = "Ok"
                         THEN outcome.content ELSE <<>>,
                         <<>>, <<>>)]

\* ToolSet::use_tool_async, given what the tool returned; `id` is Uuid::new_v4()
use_tool_async(tool_use, outcome, id) ==
    LET result_content ==
            IF tool_use.function_name \notin ToolNames
            THEN <<Text(ToolNotFound(tool_use.function_name))>>
            ELSE IF outcome.tag = "Ok"
                 THEN outcome.content
                 ELSE <<Text(ToolFailed(tool_use.function_name, outcome.e))>>
    IN [tool_use |-> tool_use,
        message |-> Message(id, ToolsRole(tool_use.use_id), result_content, <<>>, <<>>)]

\* futures::future::join_all: the outputs in the order of the futures handed in
join_all(outputs, completion) ==
    [k \in 1..Len(completion) |-> outputs[k]]

MaxToolCalls == 2

CallSeqsOf(n) ==
    UNION {{[i \in 1..k |-> CallAt(i, e[i].term, e[i].after)] : e \in [1..k -> CallEndings]}
              : k \in 0..n}

ToolTurnDescs ==
    {[pre |-> <<"h", "i", " ">>, calls |-> cs, dangling |-> FALSE, dangling_name |-> <<>>] :
        cs \in CallSeqsOf(MaxToolCalls)}

ToolsInit ==
    /\ \E d \in ToolTurnDescs : turn = parse_chunks(ParserStart(1), <<StreamText(d)>>)
    /\ tool_out = <<>>
    /\ tool_done = <<>>
    /\ results = <<>>
    /\ tpc = "flushed"
    /\ history = TreeInsert(EmptyTree, TheChat, PriorEntry(1))
    /\ appender = <<>>

ToolsIdle ==
    /\ turn = ParserStart(0)
    /\ tool_out = <<>>
    /\ tool_done = <<>>
    /\ results = <<>>
    /\ tpc = "idle"

\* provider.append_message(chat_id, assistant_message), first half: history.get
AssistantGet ==
    /\ tpc = "flushed"
    /\ appender' = TreeInsert(appender, "turn",
                       append_get(history, TheChat, assistant_message(turn, <<"msg", 0>>)))
    /\ tpc' = "append"
    /\ UNCHANGED <<turn, tool_out, tool_done, results, history, notToolsVars>>

\* second half: one pass of the compare_and_swap loop; once the loop is
\* left, without tool calls the turn loop breaks, otherwise one future per
\* call is created, in call order
AppendAssistant ==
    /\ tpc = "append"
    /\ LET r == append_cas(history, TheChat, appender["turn"]) IN
       /\ history' = r.history
       /\ IF r.call.pc = "done"
          THEN /\ appender' = TreeRemove(appender, "turn")
               /\ tool_out' = [i \in 1..Len(turn.assistant_tool_calls) |-> None]
               /\ tpc' = IF turn.assistant_tool_calls = <<>> THEN "done" ELSE "tools"
          ELSE /\ appender' = TreeInsert(appender, "turn", r.call)
               /\ UNCHANGED <<tool_out, tpc>>
    /\ UNCHANGED <<turn, tool_done, results, notToolsVars>>

\* the future of the i-th call completes
ToolComplete(i, outcome) ==
    /\ tpc = "tools"
    /\ i \in 1..Len(tool_out)
    /\ tool_out[i] = None
    /\ tool_out' = [tool_out EXCEPT ![i] =
           Some(use_tool_async(turn.assistant_tool_calls[i], outcome, <<"msg", i>>))]
    /\ tool_done' = Append(tool_done, i)
    /\ UNCHANGED <<turn, results, tpc, history, appender, notToolsVars>>

\* join_all(futures).await returns once every future has completed
JoinAll ==
    /\ tpc = "tools"
    /\ Len(tool_done) = Len(tool_out)
    /\ results' = join_all([i \in 1..Len(tool_out) |-> Unwrap(tool_out[i])], tool_done)
    /\ tpc' = "results"
    /\ UNCHANGED <<turn, tool_out, tool_done, history, appender, notToolsVars>>

\* one pass of `for (tool_use, res) in results`, up to its yield: the event
\* is handed to the consumer and the generator is suspended; the append of
\* `res` waits for the next poll
YieldToolResult ==
    /\ tpc = "results"
    /\ results # <<>>
    /\ "turn" \notin DOMAIN appender
    /\ turn' = Yield(turn, ToolResult(Head(results).tool_use, Head(results).message))
    /\ appender' = TreeInsert(appender, "turn", append_start(TheChat, Head(results).message))
    /\ results' = Tail(results)
    /\ tpc' = IF Tail(results) = <<>> THEN "done" ELSE "results"
    /\ UNCHANGED <<tool_out, tool_done, history, notToolsVars>>

\* the stream is polled again: provider.append_message(chat_id, res), history.get
ResultGet ==
    /\ tpc \in {"results", "done"}
    /\ "turn" \in DOMAIN appender
    /\ appender["turn"].pc = "get"
    /\ appender' = TreeInsert(appender, "turn",
                       append_get(history, TheChat, appender["turn"].content))
    /\ UNCHANGED <<turn, tool_out, tool_done, results, tpc, history, notToolsVars>>

\* one pass of the compare_and_swap loop of that append; after the last
\* result the turn loop goes on to the next model request
AppendResult ==
    /\ tpc \in {"results", "done"}
    /\ "turn" \in DOMAIN appender
    /\ appender["turn"].pc = "cas"
    /\ LET r == append_cas(history, TheChat, appender["turn"]) IN
       /\ history' = r.history
       /\ appender' = IF r.call.pc = "done" THEN TreeRemove(appender, "turn")
                      ELSE TreeInsert(appender, "turn", r.call)
    /\ UNCHANGED <<turn, tool_out, tool_done, results, tpc, notToolsVars>>

\* the User message of another Chat request on the same chat
OtherUserMessage == Message(<<"msg", -1>>, "User", <<Text(<<"u">>)>>, <<>>, <<>>)

\* another request on the same chat runs send_chat_message while the turn is at
\* any of its steps: the history.get of its append_message
ConcurrentGet ==
    /\ tpc \in {"flushed", "append", "tools", "results", "done"}
    /\ "other" \notin DOMAIN appender
    /\ \A i \in 1..Len(history[TheChat].messages) :
           history[TheChat].messages[i] # OtherUserMessage
    /\ appender' = TreeInsert(appender, "other",
                       append_get(history, TheChat, OtherUserMessage))
    /\ UNCHANGED <<turn, tool_out, tool_done, results, tpc, history, notToolsVars>>

\* one pass of the compare_and_swap loop of that request's append_message
ConcurrentChat ==
    /\ "other" \in DOMAIN appender
    /\ LET r == append_cas(history, TheChat, appender["other"]) IN
       /\ history' = r.history
       /\ appender' = IF r.call.pc = "done" THEN TreeRemove(appender, "other")
                      ELSE TreeInsert(appender, "other", r.call)
    /\ UNCHANGED <<turn, tool_out, tool_done, results, tpc, notToolsVars>>

ToolsNext ==
    \/ AssistantGet
    \/ AppendAssistant
    \/ \E i \in 1..MaxToolCalls, outcome \in ToolOutcomes : ToolComplete(i, outcome)
    \/ JoinAll
    \/ YieldToolResult
    \/ ResultGet
    \/ AppendResult
    \/ ConcurrentGet
    \/ ConcurrentChat

(***************************************************************************)
(* handle_socket: the loop of one websocket connection, its task table,    *)
(* the internal channel (tx, rx), and the tasks it spawns, each running    *)
(* the LLM call, handle_stream and the TaskFinished notice.                *)
(*   tasks      request_id -> the spawned task whose TaskControl is kept   *)
(*   workers    the spawned tasks, in spawn order                          *)
(*   rx         the LoopEvents sent on the channel and not received yet    *)
(*   socket_out the frames written to the websocket                        *)
(*   sending    the message the loop holds while sender.send is awaited    *)
(***************************************************************************)
\* number of tasks one connection spawns
MaxTasks == 2

\* number of events the stream of one task yields before it ends
MaxEvents == 1

RequestIds == {"r1", "r2"}

\* the task a message or frame comes from is recorded with it, to tell apart
\* two tasks started under the same request id
\* seq: the place of the event among the events the task of the request sent
InternalMsg(request_id, event, task, seq) ==
    [type |-> "InternalMsg", request_id |-> request_id, event |-> event, task |-> task,
     seq |-> seq]

TaskFinished(request_id) == [type |-> "TaskFinished", request_id |-> request_id]

\* a channel that hands over the newest message first
tx_send_newest_first(q, open, msgs) == IF open THEN msgs \o q ELSE q

\* tx.send: fails, and sends nothing, once the receiver has been dropped
tx_send(q, open, msgs) == IF open THEN q \o msgs ELSE q

SocketInit ==
    /\ tasks = EmptyTree
    /\ workers = <<>>
    /\ rx = <<>>
    /\ socket_out = <<>>
    /\ connected = TRUE
    /\ abort_log = EmptyTree
    /\ sending = None

SocketIdle ==
    /\ tasks = EmptyTree
    /\ workers = <<>>
    /\ rx = <<>>
    /\ socket_out = <<>>
    /\ connected = FALSE
    /\ abort_log = EmptyTree
    /\ sending = None

\* the code after the loop: abort every task still in the table
AbortRemaining(ws, table) ==
    [t \in 1..Len(ws) |->
        IF \E r \in DOMAIN table : table[r] = t THEN [ws[t] EXCEPT !.aborted = TRUE] ELSE ws[t]]

\* Branch A, ClientRequest::Chat / Regenerate / Edit (the three arms differ only
\* in the LLM call the task makes): the control of a new task is inserted under
\* request_id and the task is spawned
RecvRequest(request_id) ==
    /\ connected
    /\ sending = None
    /\ Len(workers) < MaxTasks
    /\ tasks' = TreeInsert(tasks, request_id, Len(workers) + 1)
    /\ workers' = Append(workers,
           [request_id |-> request_id, pc |-> "llm",
            aborted |-> FALSE, cancelled |-> FALSE, yielded |-> 0])
    /\ UNCHANGED <<rx, socket_out, connected, abort_log, sending, notSocketVars>>

\* Branch A, ClientRequest::Abort
RecvAbort(request_id) ==
    /\ connected
    /\ sending = None
    /\ IF IsSome(TreeGet(tasks, request_id))
       THEN LET t == tasks[request_id] IN
            /\ tasks' = TreeRemove(tasks, request_id)
            /\ workers' = [workers EXCEPT ![t] = [@ EXCEPT !.cancelled = TRUE,
                                                            !.aborted = TRUE]]
            /\ abort_log' = TreeInsert(abort_log, t, Len(socket_out))
       ELSE UNCHANGED <<tasks, workers, abort_log>>
    /\ UNCHANGED <<rx, socket_out, connected, sending, notSocketVars>>

\* Branch A, Close, end of input or a receive error: the loop is left
RecvClose ==
    /\ connected
    /\ sending = None
    /\ connected' = FALSE
    /\ workers' = AbortRemaining(workers, tasks)
    /\ rx' = <<>>
    /\ UNCHANGED <<tasks, socket_out, abort_log, sending, notSocketVars>>

\* Branch B, LoopEvent::InternalMsg: rx.recv() hands the message to the loop,
\* which goes on to write it to the socket
LoopInternalMsg ==
    /\ connected
    /\ sending = None
    /\ rx # <<>> /\ Head(rx).type = "InternalMsg"
    /\ sending' = Some(Head(rx))
    /\ rx' = Tail(rx)
    /\ UNCHANGED <<tasks, workers, socket_out, connected, abort_log, notSocketVars>>

\* sender.send(..).await returns: the frame is written to the socket, or the
\* write has failed and the loop is left.  While the loop waits here it takes
\* nothing from the websocket or from the channel; the tasks keep sending
SenderSend(sent) ==
    /\ connected
    /\ IsSome(sending)
    /\ sending' = None
    /\ IF sent
       THEN /\ socket_out' = Append(socket_out, [request_id |-> Unwrap(sending).request_id,
                                                 event |-> Unwrap(sending).event,
                                                 task |-> Unwrap(sending).task,
                                                 seq |-> Unwrap(sending).seq])
            /\ UNCHANGED <<workers, rx, connected>>
       ELSE /\ connected' = FALSE
            /\ workers' = AbortRemaining(workers, tasks)
            /\ rx' = <<>>
            /\ UNCHANGED socket_out
    /\ UNCHANGED <<tasks, abort_log, notSocketVars>>

\* Branch B, LoopEvent::TaskFinished
LoopTaskFinished ==
    /\ connected
    /\ sending = None
    /\ rx # <<>> /\ Head(rx).type = "TaskFinished"
    /\ tasks' = TreeRemove(tasks, Head(rx).request_id)
    /\ rx' = Tail(rx)
    /\ UNCHANGED <<workers, socket_out, connected, abort_log, sending, notSocketVars>>

\* the spawned task: the LLM call returns Ok(stream) or Err; on Err
\* handle_stream sends an Error packet only and returns
WorkerLlmReturns(t, ok) ==
    /\ t \in 1..Len(workers)
    /\ workers[t].pc = "llm"
    /\ IF ok
       THEN /\ workers' = [workers EXCEPT ![t] = [@ EXCEPT !.pc = "streaming"]]
            /\ UNCHANGED rx
       ELSE /\ workers' = [workers EXCEPT ![t] = [@ EXCEPT !.pc = "finish"]]
            /\ rx' = tx_send(rx, connected,
                             <<InternalMsg(workers[t].request_id, "Error", t, 1)>>)
    /\ UNCHANGED <<tasks, socket_out, connected, abort_log, sending, notSocketVars>>

\* handle_stream: the Abortable stream yields Ok(event), which is sent on the
\* channel; a failed send breaks the loop
WorkerEvent(t) ==
    /\ t \in 1..Len(workers)
    /\ workers[t].pc = "streaming"
    /\ ~workers[t].aborted
    /\ workers[t].yielded < MaxEvents
    /\ rx' = tx_send(rx, connected, <<InternalMsg(workers[t].request_id, "ContentDelta", t,
                                                   workers[t].yielded + 1)>>)
    /\ workers' = [workers EXCEPT ![t] =
           [@ EXCEPT !.yielded = @ + 1, !.pc = IF connected THEN "streaming" ELSE "end"]]
    /\ UNCHANGED <<tasks, socket_out, connected, abort_log, sending, notSocketVars>>

\* handle_stream: the Abortable stream yields Err: an Error packet is sent and
\* the loop is left
WorkerStreamError(t) ==
    /\ t \in 1..Len(workers)
    /\ workers[t].pc = "streaming"
    /\ ~workers[t].aborted
    /\ rx' = tx_send(rx, connected,
                     <<InternalMsg(workers[t].request_id, "Error", t, workers[t].yielded + 1)>>)
    /\ workers' = [workers EXCEPT ![t] = [@ EXCEPT !.yielded = @ + 1, !.pc = "end"]]
    /\ UNCHANGED <<tasks, socket_out, connected, abort_log, sending, notSocketVars>>

\* handle_stream: the Abortable stream yields None, because the inner stream
\* has ended or because the AbortHandle was triggered: the loop is left
WorkerStreamNone(t) ==
    /\ t \in 1..Len(workers)
    /\ workers[t].pc = "streaming"
    /\ workers' = [workers EXCEPT ![t] = [@ EXCEPT !.pc = "end"]]
    /\ UNCHANGED <<tasks, rx, socket_out, connected, abort_log, sending, notSocketVars>>

\* handle_stream after its loop: the StreamEnd packet is sent
WorkerStreamEnd(t) ==
    /\ t \in 1..Len(workers)
    /\ workers[t].pc = "end"
    /\ rx' = tx_send(rx, connected,
                     <<InternalMsg(workers[t].request_id, "StreamEnd", t,
                                   workers[t].yielded + 1)>>)
    /\ workers' = [workers EXCEPT ![t] = [@ EXCEPT !.pc = "finish"]]
    /\ UNCHANGED <<tasks, socket_out, connected, abort_log, sending, notSocketVars>>

\* the spawned task after handle_stream: tx.send(LoopEvent::TaskFinished(request_id))
WorkerTaskFinished(t) ==
    /\ t \in 1..Len(workers)
    /\ workers[t].pc = "finish"
    /\ rx' = tx_send(rx, connected, <<TaskFinished(workers[t].request_id)>>)
    /\ workers' = [workers EXCEPT ![t] = [@ EXCEPT !.pc = "exited"]]
    /\ UNCHANGED <<tasks, socket_out, connected, abort_log, sending, notSocketVars>>

SocketNext ==
    \/ \E r \in RequestIds : RecvRequest(r)
    \/ \E r \in RequestIds : RecvAbort(r)
    \/ RecvClose
    \/ LoopInternalMsg
    \/ \E sent \in BOOLEAN : SenderSend(sent)
    \/ LoopTaskFinished
    \/ \E t \in 1..MaxTasks, ok \in BOOLEAN : WorkerLlmReturns(t, ok)
    \/ \E t \in 1..MaxTasks : WorkerEvent(t)
    \/ \E t \in 1..MaxTasks : WorkerStreamError(t)
    \/ \E t \in 1..MaxTasks : WorkerStreamNone(t)
    \/ \E t \in 1..MaxTasks : WorkerStreamEnd(t)
    \/ \E t \in 1..MaxTasks : WorkerTaskFinished(t)

(***************************************************************************)
(* LLMProvider: the chat history together with the image and asset blob    *)
(* stores: uploads, user messages, replies, tool results that hand out a   *)
(* reference, regenerate and edit truncation, chat deletion.               *)
(***************************************************************************)
\* number of message ids minted (messages appended) in one run
MaxMessages == 3

\* cap on the refcount a store is driven to by uploads and tool retains
MaxRefs == 2

\* number of provider calls that are between two accesses to the history
MaxInFlight == 2

\* number of calls made on the provider: uploads, new_chat, delete_chat,
\* Chat, Regenerate and Edit requests, and model replies
MaxChatOps == 5

Chats == {"a"}

ImagePayloads == {<<1>>}

AssetPayloads == {<<2>>}

ImageIds == {from_data(d) : d \in ImagePayloads}

AssetIds == {from_data(d) : d \in AssetPayloads}

IsBlobRef(c) == c.type \in {"ImageBin", "ImageRef", "AssetRef"}

\* what a client puts into a message: text and references to uploaded blobs
UserContents ==
    {<<ImageRef(i)>> : i \in ImageIds}
        \cup {<<Text(<<"t">>), AssetRef(a)>> : a \in AssetIds}

\* what a client puts in the place of the content of a message it edits
EditContents == {<<Text(<<"e">>)>>}

\* the two stores and the record of what was released from them
Blobs(img, ast, released) == [image |-> img, asset |-> ast, released |-> released]

ReleaseRecord(c, before, after) ==
    [ref |-> c, deleted |-> HasData(before, c.id) /\ ~HasData(after, c.id)]

\* the blob references of messages, in the order in which
\* `for msg in ... { self.delete_entry_with_blobs(msg) }` comes to them
RECURSIVE blob_refs(_)
blob_refs(msgs) ==
    IF msgs = <<>> THEN <<>>
    ELSE SelectSeq(Head(msgs).content, IsBlobRef) \o blob_refs(Tail(msgs))

\* delete_entry_with_blobs, for one reference c of the content: the release
\* on the store of c, a store access of its own
release_content(k, b, c) ==
    IF c.type \in {"ImageBin", "ImageRef"}
    THEN LET st == BlobStorage_release(k, b.image, c.id).st
         IN Blobs(st, b.asset,
                  Append(b.released, ReleaseRecord(ImageRef(c.id), b.image, st)))
    ELSE LET st == BlobStorage_release(k, b.asset, c.id).st
         IN Blobs(b.image, st, Append(b.released, ReleaseRecord(c, b.asset, st)))

\* entry.messages.iter().position(|m| m.id == target_id), 0-based
position(msgs, target_id) ==
    IF \E i \in 1..Len(msgs) : msgs[i].id = target_id
    THEN Some(MinOf({i \in 1..Len(msgs) : msgs[i].id = target_id}) - 1)
    ELSE None

\* truncate_chat_history on the entry read by get_chat: the messages it
\* removes (their references are released one by one before anything is
\* written), the entry it computes, and whether it gets to history.insert
truncate_chat_history(h, chat_id, target_id) ==
    LET entry == h[chat_id]
        pos == position(entry.messages, target_id)
    IN IF IsSome(pos)
       THEN LET index == Unwrap(pos)
                keep_count == IF entry.messages[index + 1].owner = "User"
                              THEN index + 1 ELSE index
                removed == Drop(entry.messages, keep_count)
            IN IF keep_count = 0
               THEN [history |-> h, removed |-> removed, ok |-> FALSE]
               ELSE [history |-> TreeInsert(h, chat_id,
                                    [entry EXCEPT !.messages = Take(@, keep_count)]),
                     removed |-> removed, ok |-> TRUE]
       ELSE [history |-> h, removed |-> <<>>, ok |-> TRUE]

\* an edit that does not look at the owner of the target
edit_and_truncate_history_any_owner(h, chat_id, target_id, new_content) ==
    LET entry == h[chat_id]
        pos == position(entry.messages, target_id)
    IN IF IsSome(pos)
       THEN LET index == Unwrap(pos)
                removed == Drop(entry.messages, index + 1)
                kept == [Take(entry.messages, index + 1)
                            EXCEPT ![index + 1].content = new_content]
            IN [history |-> TreeInsert(h, chat_id, [entry EXCEPT !.messages = kept]),
                removed |-> removed, ok |-> TRUE]
       ELSE [history |-> h, removed |-> <<>>, ok |-> TRUE]

\* edit_and_truncate_history on the entry read by get_chat: as above; at a
\* target that is not a User message it bails out before any release
edit_and_truncate_history(h, chat_id, target_id, new_content) ==
    LET entry == h[chat_id]
        pos == position(entry.messages, target_id)
    IN IF IsSome(pos)
       THEN LET index == Unwrap(pos) IN
            IF entry.messages[index + 1].owner = "User"
            THEN LET removed == Drop(entry.messages, index + 1)
                     kept == [Take(entry.messages, index + 1)
                                 EXCEPT ![index + 1].content = new_content]
                 IN [history |-> TreeInsert(h, chat_id, [entry EXCEPT !.messages = kept]),
                     removed |-> removed, ok |-> TRUE]
            ELSE [history |-> h, removed |-> <<>>, ok |-> FALSE]
       ELSE [history |-> h, removed |-> <<>>, ok |-> TRUE]

\* LLMProvider::new opens its stores with SledBlobStorage
ChatInit ==
    /\ backend = "Sled"
    /\ image = EmptyStore
    /\ asset = EmptyStore
    /\ history = EmptyTree
    /\ appender = <<>>
    /\ minted = 0
    /\ last_op = None
    /\ chat_ops = 0

ChatIdle ==
    /\ backend = "Sled"
    /\ image = EmptyStore
    /\ asset = EmptyStore
    /\ minted = 0
    /\ last_op = None
    /\ chat_ops = 0

MessagesOf(h, chat_id) == IF IsSome(TreeGet(h, chat_id)) THEN h[chat_id].messages ELSE <<>>

\* the blob references in the persisted messages of all chats
ContentsOf(msgs) ==
    UNION {{msgs[i].content[j] : j \in 1..Len(msgs[i].content)} : i \in 1..Len(msgs)}

RefsIn(h) == {c \in UNION {ContentsOf(h[ch].messages) : ch \in DOMAIN h} : IsBlobRef(c)}

\* what a removing operation did, kept for the claims about it: the messages it
\* removed, the releases it made, and the references that stayed persisted
OpRecord(op, chat_id, removed, released, h, ok) ==
    Some([op |-> op, chat_id |-> chat_id, removed |-> removed,
          released |-> released, staying |-> RefsIn(h), ok |-> ok])

\* the calls of the provider that are between two accesses to the history:
\* "user" is the append_message of a send_chat_message, "turn" the
\* append_message of a turn loop, "trunc" a truncation that has read its
\* entry, "delete" a delete_chat that has removed the entry and releases its
\* blobs
InFlight == DOMAIN appender

\* new_chat: compare_and_swap(e.id, None, Some(e)) on the id of a fresh
\* ChatEntry::default(); an id in use makes the swap fail
new_chat(h, id) ==
    IF TreeGet(h, id) = None THEN TreeInsert(h, id, ChatEntry_default(id)) ELSE h

\* new_chat; the random id is one that no chat has
NewChat(id) ==
    /\ chat_ops < MaxChatOps
    /\ chat_ops' = chat_ops + 1
    /\ id \notin DOMAIN history
    /\ history' = new_chat(history, id)
    /\ last_op' = None
    /\ UNCHANGED <<backend, image, asset, minted, appender, notChatVars>>

\* save_image (an upload)
SaveImage(data) ==
    /\ chat_ops < MaxChatOps
    /\ chat_ops' = chat_ops + 1
    /\ RefCount(image, from_data(data)) < MaxRefs
    /\ image' = BlobStorage_save(backend, image, data).st
    /\ last_op' = None
    /\ UNCHANGED <<backend, asset, minted, history, appender, notChatVars>>

\* save_asset (an upload)
SaveAsset(data) ==
    /\ chat_ops < MaxChatOps
    /\ chat_ops' = chat_ops + 1
    /\ RefCount(asset, from_data(data)) < MaxRefs
    /\ asset' = BlobStorage_save(backend, asset, data).st
    /\ last_op' = None
    /\ UNCHANGED <<backend, image, minted, history, appender, notChatVars>>

\* send_chat_message up to the first compare_and_swap of its append_message:
\* the User message is built and the chat is read
SendChatMessage(chat_id, user_content) ==
    /\ chat_ops < MaxChatOps
    /\ chat_ops' = chat_ops + 1
    /\ minted < MaxMessages
    /\ "user" \notin InFlight
    /\ Cardinality(InFlight) < MaxInFlight
    /\ appender' = TreeInsert(appender, "user",
                       append_get(history, chat_id,
                                  Message(<<"msg", minted + 1>>, "User",
                                          user_content, <<>>, <<>>)))
    /\ minted' = minted + 1
    /\ last_op' = None
    /\ UNCHANGED <<backend, image, asset, history, notChatVars>>

\* one pass of the compare_and_swap loop of the append_message of
\* send_chat_message
SendAppend ==
    /\ "user" \in InFlight
    /\ LET r == append_cas(history, appender["user"].current_buf.id,
                           appender["user"]) IN
       /\ history' = r.history
       /\ appender' = IF r.call.pc = "done" THEN TreeRemove(appender, "user")
                      ELSE TreeInsert(appender, "user", r.call)
    /\ last_op' = None
    /\ UNCHANGED <<chat_ops, backend, image, asset, minted, notChatVars>>

(***************************************************************************)
(* serde_json::from_str::<ImageArgs> and Uuid::from_str, the two parsers   *)
(* of ImageTool::call.  A place in a text counts from 1; a parser returns  *)
(* whether it succeeded, what it read and the place after it.              *)
(***************************************************************************)
LOWER == <<"0", "1", "2", "3", "4", "5", "6", "7", "8", "9", "a", "b", "c", "d", "e", "f">>

UPPER == <<"0", "1", "2", "3", "4", "5", "6", "7", "8", "9", "A", "B", "C", "D", "E", "F">>

\* HEX_TABLE: the value of a hex digit in either case
IsHex(c) == \E d \in 1..16 : LOWER[d] = c \/ UPPER[d] = c

HexValue(c) == (CHOOSE d \in 1..16 : LOWER[d] = c \/ UPPER[d] = c) - 1

DecDigits == {"0", "1", "2", "3", "4", "5", "6", "7", "8", "9"}

\* the character at a place, "" after the end of the text
peek(s, i) == IF i <= Len(s) THEN s[i] ELSE ""

\* parse_whitespace: the place of the first character from i on that is not
\* JSON white space
parse_whitespace(s, i) ==
    MinOf({j \in i..Len(s) : s[j] \notin {" ", "\n", "\t", "\r"}} \cup {Len(s) + 1})

\* the characters a backslash escape stands for
Escapes ==
    <<<<"\"", "\"">>, <<"\\", "\\">>, <<"/", "/">>, <<"b", "U+0008">>, <<"f", "\f">>,
      <<"n", "\n">>, <<"r", "\r">>, <<"t", "\t">>>>

\* one character of a string after its opening quote.  r.mode is "chars",
\* "escape" (after a backslash), "hex" (in the digits of \u), "low1" and
\* "low2" (the backslash and the u that have to follow a leading
\* surrogate), "done" or "error"; r.high is the leading surrogate that waits
\* for its trailing one.  validate: the string is read (parse_str), not
\* skipped (ignore_str, which does not look at the value of a \u escape)
str_step(s, validate, r, j) ==
    LET c == s[j] IN
    CASE r.mode = "chars" ->
            IF c = "\"" THEN [r EXCEPT !.mode = "done", !.next = j + 1]
            ELSE IF c = "\\" THEN [r EXCEPT !.mode = "escape"]
            ELSE IF CodePoint(c) < 32 THEN [r EXCEPT !.mode = "error"]
            ELSE [r EXCEPT !.value = Append(@, c)]
      [] r.mode = "escape" ->
            IF \E e \in 1..Len(Escapes) : Escapes[e][1] = c
            THEN [r EXCEPT !.mode = "chars",
                           !.value = Append(@, Escapes[CHOOSE e \in 1..Len(Escapes) :
                                                           Escapes[e][1] = c][2])]
            ELSE IF c = "u" THEN [r EXCEPT !.mode = "hex", !.hex = <<>>]
            ELSE [r EXCEPT !.mode = "error"]
      [] r.mode = "hex" ->
            IF ~IsHex(c) THEN [r EXCEPT !.mode = "error"]
            ELSE IF Len(r.hex) < 3 THEN [r EXCEPT !.hex = Append(@, HexValue(c))]
            ELSE LET n == r.hex[1] * 4096 + r.hex[2] * 256 + r.hex[3] * 16 + HexValue(c) IN
                 IF ~validate THEN [r EXCEPT !.mode = "chars"]
                 ELSE IF r.high >= 0
                 THEN IF n \in 56320..57343
                      THEN [r EXCEPT !.mode = "chars", !.high = -1,
                                     !.value = Append(@, char_from_u32(
                                         65536 + (r.high - 55296) * 1024 + (n - 56320)))]
                      ELSE [r EXCEPT !.mode = "error"]
                 ELSE IF n \in 56320..57343 THEN [r EXCEPT !.mode = "error"]
                 ELSE IF n \in 55296..56319 THEN [r EXCEPT !.mode = "low1", !.high = n]
                 ELSE [r EXCEPT !.mode = "chars", !.value = Append(@, char_from_u32(n))]
      [] r.mode = "low1" ->
            IF c = "\\" THEN [r EXCEPT !.mode = "low2"] ELSE [r EXCEPT !.mode = "error"]
      [] r.mode = "low2" ->
            IF c = "u" THEN [r EXCEPT !.mode = "hex", !.hex = <<>>]
            ELSE [r EXCEPT !.mode = "error"]
      [] r.mode \in {"done", "error"} -> r

\* parse_str / ignore_str: the string whose opening quote is at place i
parse_str(s, i, validate) ==
    LET next(r, j) == str_step(s, validate, r, j) IN
    With(FoldRange(next, [mode |-> "chars", value |-> <<>>, hex |-> <<>>,
                          high |-> -1, next |-> 0], i + 1, Len(s)), LAMBDA r :
         IF r.mode = "done" THEN [ok |-> TRUE, value |-> r.value, next |-> r.next]
         ELSE [ok |-> FALSE, value |-> <<>>, next |-> 0])

Ignored(next) == [ok |-> TRUE, next |-> next]

NotJson == [ok |-> FALSE, next |-> 0]

\* parse_ident: null, true, false
parse_ident(s, i, ident) ==
    IF i + Len(ident) - 1 <= Len(s) /\ SubSeq(s, i, i + Len(ident) - 1) = ident
    THEN Ignored(i + Len(ident))
    ELSE NotJson

\* the place after the digits that start at i
digits_end(s, i) == MinOf({j \in i..Len(s) : s[j] \notin DecDigits} \cup {Len(s) + 1})

\* ignore_exponent
ignore_exponent(s, i) ==
    IF peek(s, i) \in {"e", "E"}
    THEN LET j == IF peek(s, i + 1) \in {"+", "-"} THEN i + 2 ELSE i + 1
             e == digits_end(s, j)
         IN IF e = j THEN NotJson ELSE Ignored(e)
    ELSE Ignored(i)

\* ignore_decimal
ignore_decimal(s, i) ==
    IF peek(s, i) = "."
    THEN LET e == digits_end(s, i + 1)
         IN IF e = i + 1 THEN NotJson ELSE ignore_exponent(s, e)
    ELSE ignore_exponent(s, i)

\* ignore_integer: a minus sign, then 0 or digits that do not start with 0
ignore_integer(s, i) ==
    LET j == IF peek(s, i) = "-" THEN i + 1 ELSE i IN
    IF peek(s, j) \notin DecDigits THEN NotJson
    ELSE IF peek(s, j) = "0"
    THEN IF peek(s, j + 1) \in DecDigits THEN NotJson ELSE ignore_decimal(s, j + 1)
    ELSE ignore_decimal(s, digits_end(s, j))

\* ignore_value: the value of a field that ImageArgs does not have is read
\* and dropped; i is the place of its first character
RECURSIVE ignore_value(_, _)
RECURSIVE ignore_elements(_, _)
RECURSIVE ignore_members(_, _)
ignore_value(s, i) ==
    LET c == peek(s, i) IN
    CASE c = "n" -> parse_ident(s, i, <<"n", "u", "l", "l">>)
      [] c = "t" -> parse_ident(s, i, <<"t", "r", "u", "e">>)
      [] c = "f" -> parse_ident(s, i, <<"f", "a", "l", "s", "e">>)
      [] c = "-" \/ c \in DecDigits -> ignore_integer(s, i)
      [] c = "\"" -> With(parse_str(s, i, FALSE), LAMBDA r :
                         IF r.ok THEN Ignored(r.next) ELSE NotJson)
      [] c = "[" -> LET j == parse_whitespace(s, i + 1)
                   IN IF peek(s, j) = "]" THEN Ignored(j + 1) ELSE ignore_elements(s, j)
      [] c = "{" -> LET j == parse_whitespace(s, i + 1)
                   IN IF peek(s, j) = "}" THEN Ignored(j + 1) ELSE ignore_members(s, j)
      [] OTHER -> NotJson

\* the elements of an array from the element at place i on
ignore_elements(s, i) ==
    With(ignore_value(s, i), LAMBDA v :
    IF ~v.ok THEN NotJson
    ELSE With(parse_whitespace(s, v.next), LAMBDA j :
         IF peek(s, j) = "," THEN ignore_elements(s, parse_whitespace(s, j + 1))
         ELSE IF peek(s, j) = "]" THEN Ignored(j + 1)
         ELSE NotJson))

\* the members of an object from the key at place i on
ignore_members(s, i) ==
    IF peek(s, i) # "\"" THEN NotJson
    ELSE With(parse_str(s, i, FALSE), LAMBDA key :
    IF ~key.ok THEN NotJson
    ELSE With(parse_whitespace(s, key.next), LAMBDA colon :
    IF peek(s, colon) # ":" THEN NotJson
    ELSE With(ignore_value(s, parse_whitespace(s, colon + 1)), LAMBDA v :
    IF ~v.ok THEN NotJson
    ELSE With(parse_whitespace(s, v.next), LAMBDA j :
         IF peek(s, j) = "," THEN ignore_members(s, parse_whitespace(s, j + 1))
         ELSE IF peek(s, j) = "}" THEN Ignored(j + 1)
         ELSE NotJson))))

\* a String value: only a JSON string is one
deserialize_string(s, i) ==
    IF peek(s, i) = "\"" THEN parse_str(s, i, TRUE) ELSE [ok |-> FALSE, value |-> <<>>, next |-> 0]

\* visit_map of the derived Deserialize of ImageArgs, from the key at place
\* i on; img_idx is the field as read so far.  A second img_idx is an error,
\* so is an object without one; other fields are skipped
RECURSIVE ImageArgs_visit_map(_, _, _)
ImageArgs_visit_map(s, i, field) ==
    IF peek(s, i) # "\"" THEN None
    ELSE With(parse_str(s, i, TRUE), LAMBDA key :
    IF ~key.ok THEN None
    ELSE With(parse_whitespace(s, key.next), LAMBDA colon :
    IF peek(s, colon) # ":" THEN None
    ELSE With(key.value = <<"i", "m", "g", "_", "i", "d", "x">>, LAMBDA is_img_idx :
    IF is_img_idx /\ IsSome(field) THEN None
    ELSE With(IF is_img_idx THEN deserialize_string(s, parse_whitespace(s, colon + 1))
              ELSE ignore_value(s, parse_whitespace(s, colon + 1)), LAMBDA value :
    IF ~value.ok THEN None
    ELSE With(IF is_img_idx THEN Some(value.value) ELSE field, LAMBDA read :
         With(parse_whitespace(s, value.next), LAMBDA j :
         IF peek(s, j) = "," THEN ImageArgs_visit_map(s, parse_whitespace(s, j + 1), read)
         ELSE IF peek(s, j) = "}" /\ IsSome(read)
         THEN Some([img_idx |-> Unwrap(read), next |-> j + 1])
         ELSE None))))))

\* visit_seq of the derived Deserialize: an array of exactly one string
ImageArgs_visit_seq(s, i) ==
    With(deserialize_string(s, i), LAMBDA value :
    IF ~value.ok THEN None
    ELSE With(parse_whitespace(s, value.next), LAMBDA j :
         IF peek(s, j) = "]" THEN Some([img_idx |-> value.value, next |-> j + 1])
         ELSE None))

\* serde_json::from_str::<ImageArgs>(args): an object or an array, with
\* nothing but white space after it
serde_json_from_str(args) ==
    LET i == parse_whitespace(args, 1)
        first == parse_whitespace(args, i + 1)
    IN With(IF peek(args, i) = "{"
            THEN IF peek(args, first) = "}" THEN None
                 ELSE ImageArgs_visit_map(args, first, None)
            ELSE IF peek(args, i) = "[" THEN ImageArgs_visit_seq(args, first)
            ELSE None, LAMBDA parsed :
       IF IsSome(parsed) /\ parse_whitespace(args, Unwrap(parsed).next) = Len(args) + 1
       THEN Some([img_idx |-> Unwrap(parsed).img_idx])
       ELSE None)

\* An id of the model is <<"blake3", payload>>; as a Uuid it is the 16 bytes
\* that end with the payload
Uuid_as_bytes(id) ==
    [i \in 1..16 |-> IF i <= 16 - Len(id[2]) THEN 0 ELSE id[2][i - (16 - Len(id[2]))]]

Uuid_from_bytes(bytes) ==
    LET set == {i \in 1..16 : bytes[i] # 0}
    IN <<"blake3", IF set = {} THEN <<>> ELSE SubSeq(bytes, MinOf(set), 16)>>

\* Display of a Uuid: the hyphenated form in small letters
Uuid_to_string(id) ==
    LET digits == [k \in 1..32 |->
                      LET byte == Uuid_as_bytes(id)[(k + 1) \div 2]
                      IN LOWER[(IF k % 2 = 1 THEN byte \div 16 ELSE byte % 16) + 1]]
    IN SubSeq(digits, 1, 8) \o <<"-">> \o SubSeq(digits, 9, 12) \o <<"-">>
           \o SubSeq(digits, 13, 16) \o <<"-">> \o SubSeq(digits, 17, 20) \o <<"-">>
           \o SubSeq(digits, 21, 32)

\* parse_simple: 32 hex digits
parse_simple(s) ==
    IF \A i \in 1..32 : IsHex(s[i])
    THEN Some(Uuid_from_bytes([b \in 1..16 |->
                                  HexValue(s[2 * b - 1]) * 16 + HexValue(s[2 * b])]))
    ELSE None

\* parse_hyphenated: 36 characters, hyphens after 8, 12, 16 and 20 digits
parse_hyphenated(s) ==
    IF \A i \in {9, 14, 19, 24} : s[i] = "-"
    THEN parse_simple(SubSeq(s, 1, 8) \o SubSeq(s, 10, 13) \o SubSeq(s, 15, 18)
                          \o SubSeq(s, 20, 23) \o SubSeq(s, 25, 36))
    ELSE None

\* Uuid::from_str: by the length of the input in bytes, 32 digits, the
\* hyphenated form, that form in braces or after urn:uuid:
Uuid_from_str(text) ==
    LET n == Len(text) IN
    IF \E i \in 1..n : CodePoint(text[i]) >= 128 THEN None
    ELSE IF n = 32 THEN parse_simple(text)
    ELSE IF n = 36 THEN parse_hyphenated(text)
    ELSE IF n = 38 /\ text[1] = "{" /\ text[38] = "}" THEN parse_hyphenated(SubSeq(text, 2, 37))
    ELSE IF n = 45 /\ SubSeq(text, 1, 9) = <<"u", "r", "n", ":", "u", "u", "i", "d", ":">>
    THEN parse_hyphenated(SubSeq(text, 10, 45))
    ELSE None

\* the arguments of an Image call as a model writes them, {"img_idx": "text"}
ImageArgsOpen == <<"{", "\"", "i", "m", "g", "_", "i", "d", "x", "\"", ":", " ", "\"">>

ImageArgsClose == <<"\"", "}">>

ImageArgs(text) == ImageArgsOpen \o text \o ImageArgsClose

\* the first two lines of ImageTool::call: the id the arguments name, or the
\* error that `?` returns (its Display text is kept as one symbol)
img_idx(args) ==
    With(serde_json_from_str(args), LAMBDA parsed :
    IF ~IsSome(parsed) THEN [uuid |-> None, error |-> <<"serde_json::Error">>]
    ELSE With(Uuid_from_str(Unwrap(parsed).img_idx), LAMBDA uuid :
         IF ~IsSome(uuid) THEN [uuid |-> None, error |-> <<"uuid::Error">>]
         ELSE [uuid |-> uuid, error |-> <<>>]))

\* the texts a reply carries as the arguments of an Image call: the id of an
\* uploaded image, and JSON whose img_idx is not an id
ImageCallArgs ==
    {ImageArgs(Uuid_to_string(i)) : i \in ImageIds} \cup {ImageArgs(<<"x">>)}

\* what the first two lines of ImageTool::call make of these texts, worked
\* out once
ImageCalls == [args \in ImageCallArgs |-> img_idx(args)]

img_idx_of(args) == Memo(ImageCalls, img_idx, args)

ImageName == <<"I", "m", "a", "g", "e">>

\* the tool calls a model reply may carry: none, or one Image call; use_id is
\* Uuid::new_v4(), here the number after the one of the Assistant message
ReplyCalls(n) ==
    {<<>>} \cup {<<ToolUse(<<"use", n + 1>>, ImageName, args)>> : args \in ImageCallArgs}

\* the turn loop has the Assistant message of a model reply, with the tool
\* calls parsed from it, and reads the chat (append_message up to its first
\* compare_and_swap).  stream_chat_response enters the loop when get_chat
\* finds the chat at the first poll, whatever the chat holds (a Regenerate or
\* Edit whose target is not in the chat gets there on a chat without
\* messages); the chat may be deleted afterwards
AssistantReply(chat_id, assistant_tool_calls) ==
    /\ chat_ops < MaxChatOps
    /\ chat_ops' = chat_ops + 1
    /\ minted < MaxMessages
    /\ "turn" \notin InFlight
    /\ Cardinality(InFlight) < MaxInFlight
    /\ appender' = TreeInsert(appender, "turn",
                       append_get(history, chat_id,
                                  Message(<<"msg", minted + 1>>, "Assistant",
                                          <<Text(<<"r">>)>>, <<>>,
                                          assistant_tool_calls)))
    /\ minted' = minted + 1
    /\ last_op' = None
    /\ UNCHANGED <<backend, image, asset, history, notChatVars>>

\* the Message use_tool_async makes of what the tool returned
tool_result(tool_use, result_content, id) ==
    Message(id, ToolsRole(tool_use.use_id), result_content, <<>>, <<>>)

ImageDoesNotExist == <<"I", "m", "a", "g", "e", " ", "d", "o", "e", "s", " ", "n", "o", "t", " ", "e", "x", "i", "s", "t", ".">>

AssetDoesNotExist == <<"A", "s", "s", "e", "t", " ", "d", "o", "e", "s", " ", "n", "o", "t", " ", "e", "x", "i", "s", "t", ".">>

\* use_tool_async of the Image call of the Assistant message just appended,
\* up to the first store access of ImageTool::call: image.get.  The tool
\* runs whatever the chat holds by now.  Arguments that do not parse make
\* the call fail, and use_tool_async turns the error into a text; without
\* the image the result is the text "Image does not exist."; the result is
\* yielded and then waits for its append_message
ImageToolGet ==
    /\ "turn" \in InFlight
    /\ appender["turn"].pc = "tool"
    /\ LET a == appender["turn"]
           tool_use == a.content.tool_use[1]
           args == img_idx_of(tool_use.args)
       IN IF IsSome(args.uuid) /\ IsSome(BlobStorage_get(backend, image, Unwrap(args.uuid)))
          THEN /\ appender' = TreeInsert(appender, "turn", [a EXCEPT !.pc = "retain"])
               /\ UNCHANGED minted
          ELSE /\ minted < MaxMessages
               /\ appender' = TreeInsert(appender, "turn",
                      append_start(a.current_buf.id,
                          tool_result(tool_use,
                                      IF IsSome(args.uuid)
                                      THEN <<Text(ImageDoesNotExist)>>
                                      ELSE <<Text(ToolFailed(tool_use.function_name,
                                                             args.error))>>,
                                      <<"msg", minted + 1>>)))
               /\ minted' = minted + 1
    /\ last_op' = None
    /\ UNCHANGED <<chat_ops, backend, image, asset, history, notChatVars>>

\* the second store access of ImageTool::call, after a get that found the
\* image: image.retain, on the store as it is by now; the result is the
\* reference
ImageToolRetain ==
    /\ "turn" \in InFlight
    /\ appender["turn"].pc = "retain"
    /\ minted < MaxMessages
    /\ LET a == appender["turn"]
           tool_use == a.content.tool_use[1]
           id == Unwrap(img_idx_of(tool_use.args).uuid)
       IN /\ RefCount(image, id) < MaxRefs
          /\ image' = BlobStorage_retain(backend, image, id).st
          /\ appender' = TreeInsert(appender, "turn",
                 append_start(a.current_buf.id,
                     tool_result(tool_use, <<ImageRef(id)>>, <<"msg", minted + 1>>)))
    /\ minted' = minted + 1
    /\ last_op' = None
    /\ UNCHANGED <<chat_ops, backend, asset, history, notChatVars>>

\* the append_message of the tool result reads the chat
TurnGet ==
    /\ "turn" \in InFlight
    /\ appender["turn"].pc = "get"
    /\ appender' = TreeInsert(appender, "turn",
                       append_get(history, appender["turn"].current_buf.id,
                                  appender["turn"].content))
    /\ last_op' = None
    /\ UNCHANGED <<chat_ops, backend, image, asset, minted, history, notChatVars>>

\* one pass of the compare_and_swap loop of an append_message of the turn
\* loop.  Once the loop is left: after an Assistant message with a tool call
\* the turn runs the tool; after one without, or after a tool result, the
\* turn is at its next model request
TurnAppend ==
    /\ "turn" \in InFlight
    /\ appender["turn"].pc = "cas"
    /\ LET r == append_cas(history, appender["turn"].current_buf.id,
                           appender["turn"]) IN
       /\ history' = r.history
       /\ appender' = IF r.call.pc # "done"
                      THEN TreeInsert(appender, "turn", r.call)
                      ELSE IF r.call.content.tool_use # <<>>
                      THEN TreeInsert(appender, "turn", [r.call EXCEPT !.pc = "tool"])
                      ELSE TreeRemove(appender, "turn")
    /\ last_op' = None
    /\ UNCHANGED <<chat_ops, backend, image, asset, minted, notChatVars>>

\* what a truncation computes from the entry it has read
TruncationOf(t) ==
    LET read == TreeInsert(EmptyTree, t.chat_id, t.entry)
    IN IF t.op = "edit"
       THEN edit_and_truncate_history(read, t.chat_id, t.target_id, Unwrap(t.new_content))
       ELSE truncate_chat_history(read, t.chat_id, t.target_id)

\* a truncation that has read the entry of its chat with get_chat: the
\* releases it has still to make, and the ones it has made
TruncationRead(op, h, chat_id, target_id, new_content) ==
    LET t == [op |-> op, chat_id |-> chat_id, target_id |-> target_id,
              new_content |-> new_content, entry |-> h[chat_id]]
        pending == blob_refs(TruncationOf(t).removed)
    IN [pc |-> IF pending = <<>> THEN "write" ELSE "release", op |-> op,
        chat_id |-> chat_id, target_id |-> target_id, new_content |-> new_content,
        entry |-> h[chat_id], pending |-> pending, released |-> <<>>]

\* regenerate_at up to the get_chat of truncate_chat_history; on a chat that
\* does not exist get_chat returns None and the call returns the error
RegenerateAt(chat_id, target_id) ==
    /\ chat_ops < MaxChatOps
    /\ chat_ops' = chat_ops + 1
    /\ "trunc" \notin InFlight
    /\ Cardinality(InFlight) < MaxInFlight
    /\ IsSome(TreeGet(history, chat_id))
    /\ appender' = TreeInsert(appender, "trunc",
                       TruncationRead("regenerate", history, chat_id, target_id, None))
    /\ last_op' = None
    /\ UNCHANGED <<backend, image, asset, minted, history, notChatVars>>

\* edit_message_and_regenerate up to the get_chat of edit_and_truncate_history
EditAt(chat_id, target_id, new_content) ==
    /\ chat_ops < MaxChatOps
    /\ chat_ops' = chat_ops + 1
    /\ "trunc" \notin InFlight
    /\ Cardinality(InFlight) < MaxInFlight
    /\ IsSome(TreeGet(history, chat_id))
    /\ appender' = TreeInsert(appender, "trunc",
                       TruncationRead("edit", history, chat_id, target_id,
                                      Some(new_content)))
    /\ last_op' = None
    /\ UNCHANGED <<backend, image, asset, minted, history, notChatVars>>

\* history.insert is reached when the target was found and the call did not
\* bail out
TruncationWrites(t, res) == IsSome(position(t.entry.messages, t.target_id)) /\ res.ok

\* one release of truncate_chat_history / edit_and_truncate_history: the next
\* reference of the removed messages, on the store as it is now
TruncationRelease ==
    /\ "trunc" \in InFlight
    /\ appender["trunc"].pending # <<>>
    /\ LET t == appender["trunc"]
           b == release_content(backend, Blobs(image, asset, t.released), Head(t.pending))
       IN /\ image' = b.image
          /\ asset' = b.asset
          /\ appender' = TreeInsert(appender, "trunc",
                             [t EXCEPT !.pending = Tail(@), !.released = b.released,
                                       !.pc = IF Tail(t.pending) = <<>>
                                              THEN "write" ELSE "release"])
    /\ last_op' = None
    /\ UNCHANGED <<chat_ops, backend, minted, history, notChatVars>>

\* the rest of truncate_chat_history / edit_and_truncate_history after its
\* releases, up to the first model request: history.insert of the computed
\* entry over whatever the chat holds now, or the return without a write
TruncationWrite ==
    /\ "trunc" \in InFlight
    /\ appender["trunc"].pending = <<>>
    /\ LET t == appender["trunc"]
           res == TruncationOf(t)
           h == IF TruncationWrites(t, res)
                THEN TreeInsert(history, t.chat_id, res.history[t.chat_id])
                ELSE history
       IN /\ history' = h
          /\ last_op' = OpRecord(t.op, t.chat_id, res.removed, t.released, h, res.ok)
    /\ appender' = TreeRemove(appender, "trunc")
    /\ UNCHANGED <<chat_ops, backend, image, asset, minted, notChatVars>>

\* delete_chat up to history.remove, which hands back the entry whose blobs
\* are released afterwards; without a blob reference the call is over
DeleteChat(chat_id) ==
    /\ chat_ops < MaxChatOps
    /\ chat_ops' = chat_ops + 1
    /\ "delete" \notin InFlight
    /\ IsSome(TreeGet(history, chat_id))
    /\ history' = TreeRemove(history, chat_id)
    /\ LET removed == history[chat_id].messages
           pending == blob_refs(removed)
       IN IF pending = <<>>
          THEN /\ appender' = appender
               /\ last_op' = OpRecord("delete_chat", chat_id, removed, <<>>, history', TRUE)
          ELSE /\ Cardinality(InFlight) < MaxInFlight
               /\ appender' = TreeInsert(appender, "delete",
                                  [pc |-> "release", op |-> "delete_chat",
                                   chat_id |-> chat_id, removed |-> removed,
                                   pending |-> pending, released |-> <<>>])
               /\ last_op' = None
    /\ UNCHANGED <<backend, image, asset, minted, notChatVars>>

\* one release of delete_chat: the next reference of the removed entry, on the
\* store as it is now; after the last one the call is over
DeleteRelease ==
    /\ "delete" \in InFlight
    /\ LET d == appender["delete"]
           b == release_content(backend, Blobs(image, asset, d.released), Head(d.pending))
       IN /\ image' = b.image
          /\ asset' = b.asset
          /\ IF Tail(d.pending) = <<>>
             THEN /\ appender' = TreeRemove(appender, "delete")
                  /\ last_op' = OpRecord("delete_chat", d.chat_id, d.removed,
                                         b.released, history, TRUE)
             ELSE /\ appender' = TreeInsert(appender, "delete",
                                     [d EXCEPT !.pending = Tail(@),
                                               !.released = b.released])
                  /\ last_op' = None
    /\ UNCHANGED <<chat_ops, backend, minted, history, notChatVars>>

MessageIds == {<<"msg", n>> : n \in 1..MaxMessages}

ChatNext ==
    \/ \E c \in Chats : NewChat(c)
    \/ \E d \in ImagePayloads : SaveImage(d)
    \/ \E d \in AssetPayloads : SaveAsset(d)
    \/ \E c \in Chats, uc \in UserContents : SendChatMessage(c, uc)
    \/ SendAppend
    \/ \E c \in Chats, calls \in ReplyCalls(minted + 1) : AssistantReply(c, calls)
    \/ ImageToolGet
    \/ ImageToolRetain
    \/ TurnGet
    \/ TurnAppend
    \/ \E c \in Chats, m \in MessageIds : RegenerateAt(c, m)
    \/ \E c \in Chats, m \in MessageIds, uc \in EditContents : EditAt(c, m, uc)
    \/ TruncationRelease
    \/ TruncationWrite
    \/ \E c \in Chats : DeleteChat(c)
    \/ DeleteRelease

(***************************************************************************)
(* The two backends side by side: the same calls of the BlobStorage trait  *)
(* are made on a sled store and on a redb store, both starting empty.      *)
(***************************************************************************)
\* number of calls made on the pair of stores
MaxTwinOps == 4

\* the limits n handed to peek
PeekLimits == {0, 1, 3}

\* SledBlobStorage::peek_raw: the first n bytes (all of them if n is larger)
\* and the total length
SledBlobStorage_peek(st, uuid, n) ==
    LET iv == TreeGet(st.data_tree, uuid) IN
    IF IsSome(iv)
    THEN Some(<<SubSeq(Unwrap(iv), 1, Min(n, Len(Unwrap(iv)))), Len(Unwrap(iv))>>)
    ELSE None

\* RedbBlobStorage::peek_raw
RedbBlobStorage_peek(st, id, n) ==
    LET result == TreeGet(st.data_tree, id) IN
    IF IsSome(result)
    THEN LET val == Unwrap(result)
             total == Len(val)
             peek_len == Min(n, total)
         IN Some(<<SubSeq(val, 1, peek_len), total>>)
    ELSE None

TwinStep(sled_res, redb_res) ==
    [sled |-> sled_res.st, redb |-> redb_res.st, calls |-> twin.calls + 1,
     sled_ret |-> sled_res.ret, redb_ret |-> redb_res.ret]

\* a call that reads only
TwinRead(sled_ret, redb_ret) ==
    [twin EXCEPT !.calls = @ + 1, !.sled_ret = sled_ret, !.redb_ret = redb_ret]

TwinInit ==
    twin = [sled |-> EmptyStore, redb |-> EmptyStore, calls |-> 0,
            sled_ret |-> "none", redb_ret |-> "none"]

TwinIdle ==
    twin = [sled |-> EmptyStore, redb |-> EmptyStore, calls |-> -1,
            sled_ret |-> "none", redb_ret |-> "none"]

TwinSave(data) ==
    /\ twin.calls \in 0..(MaxTwinOps - 1)
    /\ twin' = TwinStep(SledBlobStorage_save(twin.sled, data),
                        RedbBlobStorage_save(twin.redb, data))
    /\ UNCHANGED notTwinVars

TwinGet(id) ==
    /\ twin.calls \in 0..(MaxTwinOps - 1)
    /\ twin' = TwinRead(SledBlobStorage_get(twin.sled, id), RedbBlobStorage_get(twin.redb, id))
    /\ UNCHANGED notTwinVars

TwinPeek(id, n) ==
    /\ twin.calls \in 0..(MaxTwinOps - 1)
    /\ twin' = TwinRead(SledBlobStorage_peek(twin.sled, id, n),
                        RedbBlobStorage_peek(twin.redb, id, n))
    /\ UNCHANGED notTwinVars

TwinRetain(id) ==
    /\ twin.calls \in 0..(MaxTwinOps - 1)
    /\ twin' = TwinStep(SledBlobStorage_retain(twin.sled, id),
                        RedbBlobStorage_retain(twin.redb, id))
    /\ UNCHANGED notTwinVars

TwinRelease(id) ==
    /\ twin.calls \in 0..(MaxTwinOps - 1)
    /\ twin' = TwinStep(SledBlobStorage_release(twin.sled, id),
                        RedbBlobStorage_release(twin.redb, id))
    /\ UNCHANGED notTwinVars

TwinNext ==
    \/ \E d \in BlobPayloads : TwinSave(d)
    \/ \E id \in BlobIds : TwinGet(id)
    \/ \E id \in BlobIds, n \in PeekLimits : TwinPeek(id, n)
    \/ \E id \in BlobIds : TwinRetain(id)
    \/ \E id \in BlobIds : TwinRelease(id)

(***************************************************************************)
(* The blob writes of one run of the JS sandbox (code_interpreter.rs):     *)
(* op_save_blob and op_save_svg on the OpState of the run.                 *)
(***************************************************************************)
MAX_BLOB_PUT_TRIES == 20

\* number of blob writes of one run
MaxSandboxOps == 22

\* Schema::parse: the trimmed, lower-cased text decides
Schema_parse(input) ==
    LET name == to_lowercase(Trim(input)) IN
    IF name \in {<<"a", "s", "s", "e", "t">>,
                 <<"b", "i", "n", "a", "r", "y">>,
                 <<"b", "i", "n">>}
    THEN Some("Asset")
    ELSE IF name \in {<<"i", "m", "a", "g", "e">>,
                      <<"i", "m", "g">>,
                      <<"s", "v", "g">>,
                      <<"p", "n", "g">>,
                      <<"j", "p", "e", "g">>}
    THEN Some("Image")
    ELSE None

\* bytes: PNG bytes are the signature image::guess_format knows, here one
\* byte, followed by the picture; OtherBytes are bytes it rejects
Png(picture) == <<1>> \o picture

OtherBytes == <<2>>

guess_format_ok(bytes) == bytes # <<>> /\ Head(bytes) = Head(Png(<<>>))

(***************************************************************************)
(* QrCode::new of the qrcode crate, at its error correction level M: the   *)
(* data is cut into segments (Parser), neighbouring segments are merged    *)
(* where that is shorter (Optimizer), and the smallest version the bits    *)
(* fit into is taken (encode_auto).                                        *)
(***************************************************************************)
\* ExclCharSet::from_u8: 0 End, 1 Symbol, 2 Numeric, 3 Alpha, 4 KanjiHi1,
\* 5 KanjiHi2, 6 KanjiHi3, 7 KanjiLo1, 8 KanjiLo2, 9 Byte
ExclCharSet_from_u8(c) ==
    IF c \in {32, 36, 37, 42, 43, 45, 46, 47, 58} THEN 1
    ELSE IF c \in 48..57 THEN 2
    ELSE IF c \in 65..90 THEN 3
    ELSE IF c \in 129..159 THEN 4
    ELSE IF c \in 224..234 THEN 5
    ELSE IF c = 235 THEN 6
    ELSE IF c = 64 \/ c \in 91..126 \/ c = 128 \/ c \in 160..191 THEN 7
    ELSE IF c \in 192..223 \/ c \in 236..252 THEN 8
    ELSE 9

\* STATE_TRANSITION[state][character set + 1]: the next state and the action
STATE_TRANSITION ==
    [Init |->
        <<<<"Init", "Idle">>, <<"Alpha", "Idle">>, <<"Numeric", "Idle">>,
          <<"Alpha", "Idle">>, <<"KanjiHi12", "Idle">>, <<"KanjiHi12", "Idle">>,
          <<"KanjiHi3", "Idle">>, <<"Byte", "Idle">>, <<"Byte", "Idle">>,
          <<"Byte", "Idle">>>>,
     Numeric |->
        <<<<"Init", "Numeric">>, <<"Alpha", "Numeric">>, <<"Numeric", "Idle">>,
          <<"Alpha", "Numeric">>, <<"KanjiHi12", "Numeric">>, <<"KanjiHi12", "Numeric">>,
          <<"KanjiHi3", "Numeric">>, <<"Byte", "Numeric">>, <<"Byte", "Numeric">>,
          <<"Byte", "Numeric">>>>,
     Alpha |->
        <<<<"Init", "Alpha">>, <<"Alpha", "Idle">>, <<"Numeric", "Alpha">>,
          <<"Alpha", "Idle">>, <<"KanjiHi12", "Alpha">>, <<"KanjiHi12", "Alpha">>,
          <<"KanjiHi3", "Alpha">>, <<"Byte", "Alpha">>, <<"Byte", "Alpha">>,
          <<"Byte", "Alpha">>>>,
     Byte |->
        <<<<"Init", "Byte">>, <<"Alpha", "Byte">>, <<"Numeric", "Byte">>,
          <<"Alpha", "Byte">>, <<"KanjiHi12", "Byte">>, <<"KanjiHi12", "Byte">>,
          <<"KanjiHi3", "Byte">>, <<"Byte", "Idle">>, <<"Byte", "Idle">>,
          <<"Byte", "Idle">>>>,
     KanjiHi12 |->
        <<<<"Init", "KanjiAndSingleByte">>, <<"Alpha", "KanjiAndSingleByte">>,
          <<"Numeric", "KanjiAndSingleByte">>, <<"Kanji", "Idle">>, <<"Kanji", "Idle">>,
          <<"Kanji", "Idle">>, <<"Kanji", "Idle">>, <<"Kanji", "Idle">>,
          <<"Kanji", "Idle">>, <<"Byte", "KanjiAndSingleByte">>>>,
     KanjiHi3 |->
        <<<<"Init", "KanjiAndSingleByte">>, <<"Alpha", "KanjiAndSingleByte">>,
          <<"Numeric", "KanjiAndSingleByte">>, <<"Kanji", "Idle">>, <<"Kanji", "Idle">>,
          <<"KanjiHi12", "KanjiAndSingleByte">>, <<"KanjiHi3", "KanjiAndSingleByte">>,
          <<"Kanji", "Idle">>, <<"Byte", "KanjiAndSingleByte">>,
          <<"Byte", "KanjiAndSingleByte">>>>,
     Kanji |->
        <<<<"Init", "Kanji">>, <<"Alpha", "Kanji">>, <<"Numeric", "Kanji">>,
          <<"Alpha", "Kanji">>, <<"KanjiHi12", "Idle">>, <<"KanjiHi12", "Idle">>,
          <<"KanjiHi3", "Idle">>, <<"Byte", "Kanji">>, <<"Byte", "Kanji">>,
          <<"Byte", "Kanji">>>>]

\* a run of bytes data[begin..end) (counted from 0) and the mode it is
\* encoded in
Segment(mode, begin, end) == [mode |-> mode, begin |-> begin, end |-> end]

\* Parser: the segments of the data, one step for each byte and one for the
\* end of the data; p is the parser (state, begin) with the segments it has
\* handed out, i the place of the byte counted from 0
Parser_step(data, p, i) ==
    LET ecs == IF i < Len(data) THEN ExclCharSet_from_u8(data[i + 1]) ELSE 0
        t == STATE_TRANSITION[p.state][ecs + 1]
        cut(segments) == [state |-> t[1], begin |-> i, segments |-> p.segments \o segments]
    IN CASE t[2] = "Idle" -> [p EXCEPT !.state = t[1]]
         [] t[2] = "Numeric" -> cut(<<Segment("Numeric", p.begin, i)>>)
         [] t[2] = "Alpha" -> cut(<<Segment("Alphanumeric", p.begin, i)>>)
         [] t[2] = "Byte" -> cut(<<Segment("Byte", p.begin, i)>>)
         [] t[2] = "Kanji" -> cut(<<Segment("Kanji", p.begin, i)>>)
         [] t[2] = "KanjiAndSingleByte" ->
                IF p.begin = i - 1 THEN cut(<<Segment("Byte", p.begin, i)>>)
                ELSE cut(<<Segment("Kanji", p.begin, i - 1), Segment("Byte", i - 1, i)>>)

Parser(data) ==
    LET next(p, i) == Parser_step(data, p, i)
    IN FoldRange(next, [state |-> "Init", begin |-> 0, segments |-> <<>>],
                 0, Len(data)).segments

\* Mode::length_bits_count for the versions 1 to 40
length_bits_count(mode, version) ==
    LET bits == IF version <= 9 THEN [Numeric |-> 10, Alphanumeric |-> 9, Byte |-> 8, Kanji |-> 8]
                ELSE IF version <= 26
                THEN [Numeric |-> 12, Alphanumeric |-> 11, Byte |-> 16, Kanji |-> 10]
                ELSE [Numeric |-> 14, Alphanumeric |-> 13, Byte |-> 16, Kanji |-> 12]
    IN bits[mode]

\* Mode::data_bits_count
data_bits_count(mode, raw_data_len) ==
    CASE mode = "Numeric" -> (raw_data_len * 10 + 2) \div 3
      [] mode = "Alphanumeric" -> (raw_data_len * 11 + 1) \div 2
      [] mode = "Byte" -> raw_data_len * 8
      [] mode = "Kanji" -> raw_data_len * 13

\* Mode::max: Numeric < Alphanumeric < Byte and Kanji < Byte; two modes that
\* are not ordered give Byte
Mode_max(a, b) ==
    IF a = b THEN b
    ELSE IF {a, b} = {"Numeric", "Alphanumeric"} THEN "Alphanumeric"
    ELSE "Byte"

\* the characters of a segment: a Kanji character takes two bytes
chars_count(segment) ==
    IF segment.mode = "Kanji" THEN (segment.end - segment.begin) \div 2
    ELSE segment.end - segment.begin

\* Segment::encoded_len: mode indicator, length and data
encoded_len(segment, version) ==
    4 + length_bits_count(segment.mode, version)
      + data_bits_count(segment.mode, chars_count(segment))

\* Optimizer: a segment is joined to the one before it when the joined
\* segment is not longer than the two
Optimizer_step(segments, version, o, k) ==
    LET segment == segments[k]
        new_segment == Segment(Mode_max(o.last_segment.mode, segment.mode),
                               o.last_segment.begin, segment.end)
    IN IF encoded_len(o.last_segment, version) + encoded_len(segment, version)
            >= encoded_len(new_segment, version)
       THEN [o EXCEPT !.last_segment = new_segment]
       ELSE [last_segment |-> segment, out |-> Append(o.out, o.last_segment)]

Optimizer(segments, version) ==
    IF segments = <<>> THEN <<>>
    ELSE LET next(o, k) == Optimizer_step(segments, version, o, k)
         IN With(FoldRange(next, [last_segment |-> segments[1], out |-> <<>>],
                           2, Len(segments)), LAMBDA o :
                 Append(o.out, o.last_segment))

\* total_encoded_len
total_encoded_len(segments, version) ==
    LET add(sum, k) == sum + encoded_len(segments[k], version)
    IN FoldRange(add, 0, 1, Len(segments))

\* DATA_LENGTHS at level M: the data bits of the versions 1 to 40
DATA_LENGTHS ==
    <<128, 224, 352, 512, 688, 864, 992, 1232, 1456, 1728,
      2032, 2320, 2672, 2920, 3320, 3624, 4056, 4504, 5016, 5352,
      5712, 6256, 6880, 7312, 8000, 8496, 9024, 9544, 10136, 10984,
      11640, 12328, 13048, 13800, 14496, 15312, 15936, 16816, 17728, 18672>>

\* find_min_version: the binary search for the first version that holds
\* `length` bits (base counts from 0)
RECURSIVE find_min_version_from(_, _, _)
find_min_version_from(base, size, length) ==
    IF size > 1
    THEN LET half == size \div 2
             mid == base + half
         IN find_min_version_from(IF DATA_LENGTHS[mid + 1] > length THEN base ELSE mid,
                                  size - half, length)
    ELSE IF DATA_LENGTHS[base + 1] >= length THEN base + 1 ELSE base + 2

find_min_version(length) == find_min_version_from(0, 39, length)

\* Bits::push_header, for every segment: the number of characters has to fit
\* into the length field of the version
push_segments_ok(segments, version) ==
    \A k \in 1..Len(segments) :
        chars_count(segments[k]) < 2 ^ length_bits_count(segments[k].mode, version)

\* encode_auto: the segments are optimized for the versions 9, 26 and 40 in
\* turn; the first that holds the bits decides.  The result is the version of
\* the code, or the error
RECURSIVE encode_auto_from(_, _)
encode_auto_from(segments, versions) ==
    IF versions = <<>> THEN [ok |-> FALSE, error |-> "DataTooLong"]
    ELSE LET version == Head(versions) IN
         With(Optimizer(segments, version), LAMBDA opt_segments :
         With(total_encoded_len(opt_segments, version), LAMBDA total_len :
         IF total_len <= DATA_LENGTHS[version]
         THEN With(find_min_version(total_len), LAMBDA min_version :
                   IF push_segments_ok(opt_segments, min_version)
                   THEN [ok |-> TRUE, version |-> min_version]
                   ELSE [ok |-> FALSE, error |-> "DataTooLong"])
         ELSE encode_auto_from(segments, Tail(versions))))

encode_auto(data) == encode_auto_from(Parser(data), <<9, 26, 40>>)

\* QrCode::new(data): the code, kept as its version, its width in modules
\* and the bytes it encodes, or None for the error
QrCode_new(data) ==
    With(encode_auto(data), LAMBDA bits :
    IF bits.ok
    THEN Some([version |-> bits.version, width |-> bits.version * 4 + 17, data |-> data])
    ELSE None)

\* Renderer::min_dimensions(200, 200) and build: the side of the picture in
\* pixels, every module as wide as it takes to reach 200 with the quiet zone
\* of 4 modules on each side
min_dimensions(code, width) ==
    LET width_in_modules == code.width + 2 * 4
        unit_width == (width + width_in_modules - 1) \div width_in_modules
    IN unit_width * width_in_modules

\* a picture as the bytes of its pixels: bits per pixel, width, height, and
\* what is drawn
ImageLuma8(width, height, drawn) == <<8, width, height>> \o drawn

Pixmap(width, height, drawn) == <<32, width, height>> \o drawn

\* the texts the scripts encode: 2332 digits (which a code holds in Numeric
\* mode), 2332 letters (one byte more than a code holds in Byte mode), and
\* 1200 accented letters (2400 bytes)
QrText == [i \in 1..2332 |-> "1"]

QrLongText == [i \in 1..2332 |-> "q"]

QrAccentedText == [i \in 1..1200 |-> "U+00E9"]

QrTexts == {QrText, QrLongText, QrAccentedText}

\* the codes of these texts, worked out once
QrCodes == [text \in QrTexts |-> QrCode_new(as_bytes(text))]

\* QrCode::new(text.as_bytes())
QrCode_of(text) ==
    LET new(t) == QrCode_new(as_bytes(t)) IN Memo(QrCodes, new, text)

\* op_qrcode_png: the code rendered and written as PNG
op_qrcode_png(text) ==
    With(QrCode_of(text), LAMBDA code :
    IF IsSome(code)
    THEN LET side == min_dimensions(Unwrap(code), 200)
         IN Some(Png(ImageLuma8(side, side, Unwrap(code).data)))
    ELSE None)

\* An svg text is kept as what the libraries make of it: the tree
\* usvg::Tree::from_str reads from it (None when it rejects the text) with
\* its size and its drawing, whether tiny_skia::Pixmap::new has a pixmap of
\* that size, and whether encode_png of the pixmap succeeds
Svg(tree, pixmap, png) == [tree |-> tree, pixmap |-> pixmap, png |-> png]

SvgTree(width, height, paths) == [width |-> width, height |-> height, paths |-> paths]

\* op_qrcode_svg: the code rendered as svg text, min_dimensions(200, 200)
op_qrcode_svg(text) ==
    With(QrCode_of(text), LAMBDA code :
    IF IsSome(code)
    THEN LET side == min_dimensions(Unwrap(code), 200)
         IN Some(Svg(Some(SvgTree(side, side, Unwrap(code).data)), TRUE, TRUE))
    ELSE None)

\* resvg::render and encode_png: the PNG bytes of the drawing at its size
render(tree) == Png(Pixmap(tree.width, tree.height, tree.paths))

\* the result of a native op on the OpState s: the state after it, what it
\* returns to the script, and whether it wrote a blob
OpResult(s, ret, wrote) ==
    [s EXCEPT !.last = ret, !.before = s.writes,
              !.writes = IF wrote THEN @ + 1 ELSE @]

\* op_save_blob
op_save_blob(s, schema, img) ==
    LET parsed == Schema_parse(schema) IN
    IF ~IsSome(parsed) THEN OpResult(s, "InvalidSchema", FALSE)
    ELSE IF IsSome(s.counter) /\ Unwrap(s.counter) >= MAX_BLOB_PUT_TRIES
    \* the Counter was taken out of the OpState and is not put back
    THEN OpResult([s EXCEPT !.counter = None], "MaxTries", FALSE)
    ELSE LET s1 == [s EXCEPT !.counter = IF IsSome(s.counter)
                                          THEN Some(Unwrap(s.counter) + 1)
                                          ELSE Some(1)]
         IN IF Unwrap(parsed) = "Image"
            THEN IF ~guess_format_ok(img) THEN OpResult(s1, "ImageIOError", FALSE)
                 ELSE OpResult([s1 EXCEPT !.image = SledBlobStorage_save(s1.image, img).st],
                               "Ok", TRUE)
            ELSE OpResult([s1 EXCEPT !.asset = SledBlobStorage_save(s1.asset, img).st],
                          "Ok", TRUE)

\* op_save_svg: the svg is parsed, rendered to PNG bytes and saved as an
\* image; every failure comes before the save
op_save_svg(s, svg_data) ==
    LET tree == svg_data.tree IN
    IF ~IsSome(tree) THEN OpResult(s, "InvalidSVG", FALSE)
    ELSE IF Unwrap(tree).width = 0 \/ Unwrap(tree).height = 0
    THEN OpResult(s, "ImageEmpty", FALSE)
    ELSE IF ~svg_data.pixmap THEN OpResult(s, "InternalErrorCreatePixMap", FALSE)
    ELSE IF ~svg_data.png THEN OpResult(s, "InternalErrorConvertPixMapToPng", FALSE)
    ELSE OpResult([s EXCEPT !.image = SledBlobStorage_save(s.image, render(Unwrap(tree))).st],
                  "Ok", TRUE)

\* QRCode.save(text, format): an empty text and a format other than png and
\* svg throw in the script, before any op is called
QRCode_save(s, text, format) ==
    IF text = <<>> THEN OpResult(s, "QRCode: Text cannot be empty", FALSE)
    ELSE IF to_lowercase(format) = <<"p", "n", "g">>
    THEN With(op_qrcode_png(text), LAMBDA bytes :
         IF IsSome(bytes) THEN op_save_blob(s, <<"i", "m", "a", "g", "e">>, Unwrap(bytes))
         ELSE OpResult(s, "QRCodeEncodeError", FALSE))
    ELSE IF to_lowercase(format) = <<"s", "v", "g">>
    THEN With(op_qrcode_svg(text), LAMBDA svgStr :
         IF IsSome(svgStr) THEN op_save_svg(s, Unwrap(svgStr))
         ELSE OpResult(s, "QRCodeEncodeError", FALSE))
    ELSE OpResult(s, "QRCode: Unsupported format", FALSE)

\* what a script hands to QRCode.save: a text and a format
SandboxCodes ==
    {<<<<>>, <<"p", "n", "g">>>>,
     <<QrText, <<"p", "n", "g">>>>,
     <<QrText, <<"S", "V", "G">>>>,
     <<QrText, <<"g", "i", "f">>>>,
     <<QrLongText, <<"P", "n", "g">>>>,
     <<QrAccentedText, <<"s", "v", "g">>>>}

\* what a script hands to save_blob: a schema and bytes (the PNG bytes are
\* those of the code of QrText)
SandboxBlobs ==
    {<<<<"a", "s", "s", "e", "t">>, OtherBytes>>,
     <<<<" ", "I", "m", "a", "g", "e", "\n">>, Unwrap(op_qrcode_png(QrText))>>,
     <<<<"B", "I", "N">>, OtherBytes>>,
     <<<<"b", "o", "g", "u", "s">>, OtherBytes>>}

\* what a script hands to save_svg: text that is not svg, the svg of the code
\* of QrText, an svg too large for a pixmap, and one whose PNG encoding fails
SandboxSvgs ==
    {Svg(None, FALSE, FALSE),
     Unwrap(op_qrcode_svg(QrText)),
     Svg(Some(SvgTree(1073741824, 1, <<>>)), FALSE, FALSE),
     Svg(Some(SvgTree(1, 1, <<>>)), TRUE, FALSE)}

\* a new run: a fresh OpState without Counter
SandboxInit ==
    sandbox = [counter |-> None, image |-> EmptyStore, asset |-> EmptyStore,
               writes |-> 0, before |-> 0, last |-> "none"]

SandboxIdle ==
    sandbox = [counter |-> None, image |-> EmptyStore, asset |-> EmptyStore,
               writes |-> 0, before |-> 0, last |-> "idle"]

SaveBlob(schema, img) ==
    /\ sandbox.last # "idle"
    /\ sandbox.writes < MaxSandboxOps
    /\ sandbox' = op_save_blob(sandbox, schema, img)
    /\ UNCHANGED notSandboxVars

SaveSvg(svg_data) ==
    /\ sandbox.last # "idle"
    /\ sandbox.writes < MaxSandboxOps
    /\ sandbox' = op_save_svg(sandbox, svg_data)
    /\ UNCHANGED notSandboxVars

QRCodeSave(text, format) ==
    /\ sandbox.last # "idle"
    /\ sandbox.writes < MaxSandboxOps
    /\ sandbox' = QRCode_save(sandbox, text, format)
    /\ UNCHANGED notSandboxVars

SandboxNext ==
    \/ \E b \in SandboxBlobs : SaveBlob(b[1], b[2])
    \/ \E svg_data \in SandboxSvgs : SaveSvg(svg_data)
    \/ \E c \in SandboxCodes : QRCodeSave(c[1], c[2])

(***************************************************************************)
(* AssetId (asset_id.rs): the text form of an id and its parser.  An id is *)
(* its 20 bytes, most significant first; a BigUint is kept as its bytes,   *)
(* and radix conversion is done digit by digit, as long division.          *)
(***************************************************************************)
\* struct AssetId([u8; 20])
ID_BYTES == 20

\* `let width = 31`
BASE36_WIDTH == 31

Digits36 ==
    <<"0", "1", "2", "3", "4", "5", "6", "7", "8", "9", "a", "b", "c", "d", "e", "f", "g", "h",
      "i", "j", "k", "l", "m", "n", "o", "p", "q", "r", "s", "t", "u", "v", "w", "x", "y", "z">>

\* the same digits in capitals, which from_str_radix reads as well
UpperDigits36 ==
    <<"0", "1", "2", "3", "4", "5", "6", "7", "8", "9", "A", "B", "C", "D", "E", "F", "G", "H",
      "I", "J", "K", "L", "M", "N", "O", "P", "Q", "R", "S", "T", "U", "V", "W", "X", "Y", "Z">>

DigitChar(d) == Digits36[d + 1]

\* b'0'..=b'9', b'a'..=b'z' and b'A'..=b'Z' with a value below the radix
IsDigit36(c) == \E d \in 1..Len(Digits36) : Digits36[d] = c \/ UpperDigits36[d] = c

DigitValue(c) ==
    (CHOOSE d \in 1..Len(Digits36) : Digits36[d] = c \/ UpperDigits36[d] = c) - 1

IsZeroNum(bytes) == \A i \in 1..Len(bytes) : bytes[i] = 0

\* big-endian bytes divided by 36: quotient bytes and remainder
RECURSIVE DivStep36(_, _, _, _)
DivStep36(bytes, i, rem, acc) ==
    IF i > Len(bytes) THEN [q |-> acc, r |-> rem]
    ELSE LET cur == rem * 256 + bytes[i]
         IN DivStep36(bytes, i + 1, cur % 36, Append(acc, cur \div 36))

\* BigUint::to_str_radix(36)
RECURSIVE RadixDigits36(_)
RadixDigits36(bytes) ==
    IF IsZeroNum(bytes) THEN <<>>
    ELSE LET d == DivStep36(bytes, 1, 0, <<>>)
         IN Append(RadixDigits36(d.q), DigitChar(d.r))

to_str_radix(bytes) == IF IsZeroNum(bytes) THEN <<"0">> ELSE RadixDigits36(bytes)

\* format!("{:0>width$}", s): zeros on the left up to the width
PadLeftZeros(s, width) ==
    IF Len(s) >= width THEN s ELSE [i \in 1..(width - Len(s)) |-> "0"] \o s

\* AssetId::to_base36_string
to_base36_string(id) ==
    LET padded == PadLeftZeros(to_str_radix(id), BASE36_WIDTH)
    IN SubSeq(padded, 1, 6) \o <<"-">> \o SubSeq(padded, 7, 12) \o <<"-">>
           \o SubSeq(padded, 13, 18) \o <<"-">> \o SubSeq(padded, 19, 24) \o <<"-">>
           \o SubSeq(padded, 25, 31)

\* str::trim_start_matches(pat) for a string pattern: repeated removal
RECURSIVE trim_start_matches(_, _)
trim_start_matches(s, pat) ==
    IF Len(s) >= Len(pat) /\ SubSeq(s, 1, Len(pat)) = pat
    THEN trim_start_matches(SubSeq(s, Len(pat) + 1, Len(s)), pat)
    ELSE s

IsNotHyphen(c) == c # "-"

\* little-endian bytes times 36 plus a digit
RECURSIVE MulAdd36(_, _, _, _)
MulAdd36(le, i, carry, acc) ==
    IF i > Len(le)
    THEN IF carry = 0 THEN acc
         ELSE MulAdd36(le, i, carry \div 256, Append(acc, carry % 256))
    ELSE LET cur == le[i] * 36 + carry
         IN MulAdd36(le, i + 1, cur \div 256, Append(acc, cur % 256))

RECURSIVE ParseDigits36(_, _)
ParseDigits36(raw, le) ==
    IF raw = <<>> THEN le
    ELSE ParseDigits36(Tail(raw), MulAdd36(le, 1, DigitValue(Head(raw)), <<>>))

Reverse(s) == [i \in 1..Len(s) |-> s[Len(s) + 1 - i]]

IsNotUnderscore(c) == c # "_"

\* s.strip_prefix('+'), taken unless the tail starts with another '+'
strip_plus(s) ==
    IF s # <<>> /\ Head(s) = "+" /\ ~(Len(s) >= 2 /\ s[2] = "+") THEN Tail(s) ELSE s

\* BigUint::from_str_radix(raw, 36) then to_bytes_be(): without leading zero
\* bytes, zero being the single byte 0.  One leading '+' is dropped; the
\* text must not be empty then, nor start with '_'; every other '_' is
\* skipped and every other character must be a digit, small or capital.
\* None for an error
from_str_radix(raw) ==
    LET s == strip_plus(raw)
        v == SelectSeq(s, IsNotUnderscore)
    IN IF s = <<>> \/ Head(s) = "_" \/ \E i \in 1..Len(v) : ~IsDigit36(v[i]) THEN None
       ELSE LET le == ParseDigits36(v, <<>>)
            IN Some(IF le = <<>> \/ IsZeroNum(le) THEN <<0>> ELSE Reverse(le))

AssetPrefix == <<"a", "s", "s", "e", "t", "-">>

AssetSlash == <<"a", "s", "s", "e", "t", "/">>

ImagePrefix == <<"i", "m", "a", "g", "e", "-">>

ImageSlash == <<"i", "m", "a", "g", "e", "/">>

\* a parser that does not remove the type prefix
AssetId_from_str_keeps_prefix(s) ==
    LET num == from_str_radix(SelectSeq(Trim(s), IsNotHyphen))
    IN IF ~IsSome(num) THEN None
       ELSE IF Len(Unwrap(num)) > ID_BYTES THEN None
       ELSE Some([i \in 1..(ID_BYTES - Len(Unwrap(num))) |-> 0] \o Unwrap(num))

\* impl FromStr for AssetId: Some(id), or None for an error
AssetId_from_str(s) ==
    LET clean1 == trim_start_matches(trim_start_matches(Trim(s), AssetPrefix), AssetSlash)
        clean == trim_start_matches(trim_start_matches(Trim(clean1), ImagePrefix), ImageSlash)
        raw == SelectSeq(clean, IsNotHyphen)
        num == from_str_radix(raw)
    IN IF ~IsSome(num) THEN None
       ELSE LET bytes == Unwrap(num) IN
            IF Len(bytes) > ID_BYTES THEN None
            ELSE Some([i \in 1..(ID_BYTES - Len(bytes)) |-> 0] \o bytes)

(***************************************************************************)
(* SpecAssetId: an id is formatted, the text is handed over in one of the  *)
(* accepted forms, and parsed.                                             *)
(***************************************************************************)
\* the byte values the sample ids are made of
SampleBytes == {0, 1, 35, 36, 255}

\* ids whose first k bytes are x and whose other bytes are y
SampleIds ==
    {[i \in 1..ID_BYTES |-> IF i <= k THEN x ELSE y] :
        k \in 0..ID_BYTES, x \in SampleBytes, y \in SampleBytes}

\* the forms the format is documented to be read in, and other texts a
\* caller may hand over: the id in capitals, with '_' for the hyphens, with
\* a sign, and texts that are not read
TextForms ==
    {"canonical", "continuous", "asset-", "image-", "asset-continuous",
     "capitals", "underscores", "+", "++", "_"}

ToUpper(c) == IF \E d \in 1..Len(Digits36) : Digits36[d] = c
              THEN UpperDigits36[DigitValue(c) + 1] ELSE c

InForm(text, form) ==
    IF form = "canonical" THEN text
    ELSE IF form = "continuous" THEN SelectSeq(text, IsNotHyphen)
    ELSE IF form = "asset-" THEN AssetPrefix \o text
    ELSE IF form = "image-" THEN ImagePrefix \o text
    ELSE IF form = "asset-continuous" THEN AssetPrefix \o SelectSeq(text, IsNotHyphen)
    ELSE IF form = "capitals" THEN [i \in 1..Len(text) |-> ToUpper(text[i])]
    ELSE IF form = "underscores"
         THEN [i \in 1..Len(text) |-> IF text[i] = "-" THEN "_" ELSE text[i]]
    ELSE IF form = "+" THEN <<"+">> \o text
    ELSE IF form = "++" THEN <<"+", "+">> \o text
    ELSE <<"_">> \o text

AssetIdInit ==
    /\ \E id \in SampleIds :
           codec = [pc |-> "id", id |-> id, text |-> <<>>, form |-> "none", parsed |-> None]

AssetIdIdle ==
    codec = [pc |-> "idle", id |-> <<>>, text |-> <<>>, form |-> "none", parsed |-> None]

\* Display: to_base36_string
FormatId ==
    /\ codec.pc = "id"
    /\ codec' = [codec EXCEPT !.pc = "text", !.text = to_base36_string(codec.id)]
    /\ UNCHANGED notAssetIdVars

\* FromStr on the text in one of the accepted forms
ParseId(form) ==
    /\ codec.pc = "text"
    /\ codec' = [codec EXCEPT !.pc = "parsed", !.form = form,
                              !.parsed = AssetId_from_str(InForm(codec.text, form))]
    /\ UNCHANGED notAssetIdVars

AssetIdNext ==
    \/ FormatId
    \/ \E form \in TextForms : ParseId(form)

(***************************************************************************)
(* stream_chat_response as a whole: the loop of model requests of one Chat *)
(* request.  Each iteration creates a model stream, parses its items,      *)
(* appends the Assistant message, runs the tool calls of the turn under    *)
(* join_all, yields and appends each result, and goes round again; an Err  *)
(* from the stream leaves the generator through `?`.  `resp.events` is     *)
(* what handle_stream sends for the request, in order.                     *)
(***************************************************************************)
MaxModelCalls == 3

ErrorEvent == [type |-> "Error"]

\* the largest number of tool calls in one answer of the model
MaxResponseCalls == 3

\* what the model answers: text alone, one call of a registered tool, or
\* three calls of which the second names a tool that is not registered
ResponseDescs ==
    {[pre |-> <<"h", "i", " ">>,
      calls |-> [i \in 1..n |-> CallAt(i, FN_EXIT, <<>>)],
      dangling |-> FALSE, dangling_name |-> <<>>] : n \in {0, 1, MaxResponseCalls}}

\* the number of characters of the stream delivered before an item fails
FailCuts == {0, 3, 20}

\* a generator that goes round the loop again after an Err from the stream
stream_error_retries(r, yielded) ==
    [r EXCEPT !.pc = "request", !.events = @ \o yielded \o <<ErrorEvent>>]

\* `stream_result?` and `thunk?`: the generator yields the Err and ends;
\* handle_stream sends the events yielded so far and then the Error packet
stream_error(r, yielded) ==
    [r EXCEPT !.pc = "failed", !.events = @ \o yielded \o <<ErrorEvent>>]

ResponseStart(pc) ==
    [pc |-> pc, model_calls |-> 0, tools_run |-> 0, minted |-> 0,
     turn |-> ParserStart(0), outcomes |-> <<>>, results |-> <<>>, events |-> <<>>]

\* the request starts on a chat that holds its User message
ResponseInit ==
    /\ resp = ResponseStart("request")
    /\ history = TreeInsert(EmptyTree, TheChat, PriorEntry(1))
    /\ appender = <<>>

ResponseIdle == resp = ResponseStart("idle")

\* chat.create_stream(req) under select! with the cancel token
CreateStream(outcome) ==
    /\ resp.pc = "request"
    /\ resp.model_calls < MaxModelCalls
    /\ LET r == [resp EXCEPT !.model_calls = @ + 1, !.outcomes = <<>>]
       IN resp' = CASE outcome = "Ok" -> [r EXCEPT !.pc = "streaming"]
                    [] outcome = "Err" -> stream_error(r, <<>>)
                    [] outcome = "cancelled" -> [r EXCEPT !.pc = "done"]
    /\ UNCHANGED <<appendVars, notResponseVars>>

\* every item of the stream arrives and the stream returns None
StreamCompletes(d) ==
    /\ resp.pc = "streaming"
    /\ LET t == parse_chunks(ParserStart(resp.model_calls), <<StreamText(d)>>)
       IN resp' = [resp EXCEPT !.pc = "flushed", !.turn = t, !.events = @ \o t.events]
    /\ UNCHANGED <<appendVars, notResponseVars>>

\* an item of the stream is an Err, after `cut` characters have been parsed
StreamItemFails(d, cut) ==
    /\ resp.pc = "streaming"
    /\ LET t == on_content(ParserStart(resp.model_calls), Take(StreamText(d), cut))
       IN resp' = stream_error(resp, t.events)
    /\ UNCHANGED <<appendVars, notResponseVars>>

\* the Assistant message of the turn is appended; without tool calls the
\* loop breaks
ResponseAppendAssistant ==
    /\ resp.pc = "flushed"
    /\ history' = append_message(history, TheChat,
                                 assistant_message(resp.turn, <<"msg", resp.minted + 1>>))
    /\ resp' = [resp EXCEPT !.minted = @ + 1,
                            !.pc = IF resp.turn.assistant_tool_calls = <<>>
                                   THEN "done" ELSE "tools"]
    /\ UNCHANGED <<appender, notResponseVars>>

\* join_all over use_tool_async of every call of the turn
RunTools(outcomes) ==
    /\ resp.pc = "tools"
    /\ Len(outcomes) = Len(resp.turn.assistant_tool_calls)
    /\ LET n == Len(outcomes)
           outs == [i \in 1..n |-> use_tool_async(resp.turn.assistant_tool_calls[i],
                                                  outcomes[i], <<"msg", resp.minted + i>>)]
       IN resp' = [resp EXCEPT !.pc = "results", !.outcomes = outcomes,
                               !.results = join_all(outs, [i \in 1..n |-> i]),
                               !.tools_run = @ + n, !.minted = @ + n]
    /\ UNCHANGED <<appendVars, notResponseVars>>

\* one pass of `for (tool_use, res) in results`, up to its yield: the result
\* is handed to the consumer
ResponseYieldResult ==
    /\ resp.pc = "results"
    /\ resp.results # <<>>
    /\ resp' = [resp EXCEPT
           !.events = Append(@, ToolResult(Head(resp.results).tool_use,
                                           Head(resp.results).message)),
           !.pc = "yielded"]
    /\ UNCHANGED <<appendVars, notResponseVars>>

\* the stream is polled again: the result is appended; after the last one
\* the loop goes on to the next model request
ResponseAppendResult ==
    /\ resp.pc = "yielded"
    /\ history' = append_message(history, TheChat, Head(resp.results).message)
    /\ resp' = [resp EXCEPT
           !.results = Tail(@),
           !.pc = IF Tail(resp.results) = <<>> THEN "request" ELSE "results"]
    /\ UNCHANGED <<appender, notResponseVars>>

\* handle_stream: after the loop over the stream, which ends at None or at
\* the first Err, the StreamEnd packet is sent
ResponseStreamEnd ==
    /\ resp.pc \in {"done", "failed"}
    /\ resp' = [resp EXCEPT !.pc = "ended", !.events = Append(@, StreamEnd)]
    /\ UNCHANGED <<appendVars, notResponseVars>>

ResponseNext ==
    \/ \E outcome \in {"Ok", "Err", "cancelled"} : CreateStream(outcome)
    \/ \E d \in ResponseDescs : StreamCompletes(d)
    \/ \E d \in ResponseDescs, cut \in FailCuts : StreamItemFails(d, cut)
    \/ ResponseAppendAssistant
    \/ \E n \in 1..MaxResponseCalls : \E outcomes \in [1..n -> ToolOutcomes] : RunTools(outcomes)
    \/ ResponseYieldResult
    \/ ResponseAppendResult
    \/ ResponseStreamEnd

(***************************************************************************)
(* SessionStorage: a meta row and a data row per session id, kept in two   *)
(* trees (sled) or two tables (redb) that are written in one transaction.  *)
(* A key is the 16 bytes of the id, so the key order of a tree is the      *)
(* order of the ids; the ids are small numbers here.  `sessions` holds a   *)
(* sled store and a redb store driven by the same calls, with what the     *)
(* last call returned from each.                                           *)
(***************************************************************************)
MaxSessions == 3

SessionIds == 1..MaxSessions

SessionMetas == {<<1>>, <<2>>}

SessionDatas == {<<7>>}

EmptySessionStore == [meta |-> EmptyTree, data |-> EmptyTree]

\* the closures handed to update_data_with: one that rewrites both rows from
\* the old ones, one that fails always, one that fails on a missing session,
\* one that fails on an existing session
Callbacks == {"touch", "fail", "must_exist", "must_be_new"}

Callback(f, old_meta, old_data) ==
    LET ok == [tag |-> "Ok", meta |-> <<2>>,
               data |-> IF IsSome(old_data) THEN <<8>> ELSE <<7>>]
        err == [tag |-> "Err"]
    IN CASE f = "touch" -> ok
         [] f = "fail" -> err
         [] f = "must_exist" -> IF IsSome(old_meta) /\ IsSome(old_data) THEN ok ELSE err
         [] f = "must_be_new" -> IF IsSome(old_meta) \/ IsSome(old_data) THEN err ELSE ok

SessionRet(st, ret) == [st |-> st, ret |-> ret]

\* append: the id drawn by Uuid::now_v7(); an id that is taken is a collision
\* and the store is left alone (the caller's loop draws again)
SessionStore_append(st, id, meta, data) ==
    IF IsSome(TreeGet(st.meta, id))
    THEN SessionRet(st, [tag |-> "Err"])
    ELSE SessionRet([meta |-> TreeInsert(st.meta, id, meta),
                     data |-> TreeInsert(st.data, id, data)], [tag |-> "Ok", id |-> id])

SessionStore_update(st, id, meta, data) ==
    SessionRet([meta |-> TreeInsert(st.meta, id, meta),
                data |-> TreeInsert(st.data, id, data)], [tag |-> "Ok"])

\* a delete that removes the meta row and leaves the data row behind
SessionStore_delete_meta_only(st, id) ==
    SessionRet([meta |-> TreeRemove(st.meta, id), data |-> st.data],
               [tag |-> "Ok", old |-> TreeGet(st.data, id)])

\* delete: one transaction removes the meta row and the data row and returns
\* the data that was removed
SessionStore_delete(st, id) ==
    SessionRet([meta |-> TreeRemove(st.meta, id), data |-> TreeRemove(st.data, id)],
               [tag |-> "Ok", old |-> TreeGet(st.data, id)])

\* a redb store that writes the rows before it asks the callback
RedbSessionStore_update_data_with_eager(st, id, f) ==
    LET new == Callback(f, TreeGet(st.meta, id), TreeGet(st.data, id))
    IN SessionRet([meta |-> TreeInsert(st.meta, id, <<0>>),
                   data |-> TreeInsert(st.data, id, <<0>>)],
                  IF new.tag = "Ok" THEN new ELSE [tag |-> "Err"])

\* SledSessionStore::update_data_with: the closure of the transaction reads
\* both rows, calls f, and inserts both; an Err of f aborts the transaction
\* before anything was inserted
SledSessionStore_update_data_with(st, id, f) ==
    LET old_meta == TreeGet(st.meta, id)
        old_data == TreeGet(st.data, id)
        new == Callback(f, old_meta, old_data)
    IN IF new.tag = "Ok"
       THEN SessionRet([meta |-> TreeInsert(st.meta, id, new.meta),
                        data |-> TreeInsert(st.data, id, new.data)],
                       [tag |-> "Ok", meta |-> new.meta, data |-> new.data])
       ELSE SessionRet(st, [tag |-> "Err"])

\* RedbSessionStore::update_data_with: inside a write transaction both rows
\* are read and f is called; `?` on its Err leaves before any insert and the
\* transaction is dropped without a commit
RedbSessionStore_update_data_with(st, id, f) ==
    LET old_data == TreeGet(st.data, id)
        old_meta == TreeGet(st.meta, id)
        new == Callback(f, old_meta, old_data)
    IN IF new.tag = "Err"
       THEN SessionRet(st, [tag |-> "Err"])
       ELSE SessionRet([meta |-> TreeInsert(st.meta, id, new.meta),
                        data |-> TreeInsert(st.data, id, new.data)],
                       [tag |-> "Ok", meta |-> new.meta, data |-> new.data])

\* tree.iter(): the rows by ascending key
RECURSIVE tree_iter(_)
tree_iter(t) ==
    IF DOMAIN t = {} THEN <<>>
    ELSE LET k == MinOf(DOMAIN t)
         IN <<[id |-> k, meta |-> t[k]]>> \o tree_iter(TreeRemove(t, k))

\* Iterator::skip(offset.unwrap_or(0))
skip(rows, offset) == Drop(rows, IF IsSome(offset) THEN Unwrap(offset) ELSE 0)

\* Iterator::take(limit.unwrap_or(usize::MAX)): without a limit every row
take(rows, limit) == IF IsSome(limit) THEN Take(rows, Unwrap(limit)) ELSE rows

\* a listing that starts from the oldest session
SessionStore_list_ascending(st, limit, offset) ==
    take(skip(tree_iter(st.meta), offset), limit)

\* list: iter().rev().skip(..).take(..); every key of the sled tree has 16
\* bytes, so its filter passes every row
SessionStore_list(st, limit, offset) ==
    take(skip(Reverse(tree_iter(st.meta)), offset), limit)

LimitOptions == {None} \cup {Some(n) : n \in 0..2}

OffsetOptions == {None} \cup {Some(n) : n \in 0..MaxSessions}

SessionCall(sled, redb, call) ==
    [sled |-> sled.st, redb |-> redb.st, sled_ret |-> sled.ret, redb_ret |-> redb.ret,
     call |-> call]

SessionInit ==
    sessions = [sled |-> EmptySessionStore, redb |-> EmptySessionStore,
                sled_ret |-> [tag |-> "none"], redb_ret |-> [tag |-> "none"],
                call |-> [op |-> "new"]]

SessionIdle ==
    sessions = [sled |-> EmptySessionStore, redb |-> EmptySessionStore,
                sled_ret |-> [tag |-> "idle"], redb_ret |-> [tag |-> "idle"],
                call |-> [op |-> "idle"]]

SessionAppend(id, meta, data) ==
    /\ sessions' = SessionCall(SessionStore_append(sessions.sled, id, meta, data),
                               SessionStore_append(sessions.redb, id, meta, data),
                               [op |-> "append"])
    /\ UNCHANGED notSessionVars

SessionUpdate(id, meta, data) ==
    /\ sessions' = SessionCall(SessionStore_update(sessions.sled, id, meta, data),
                               SessionStore_update(sessions.redb, id, meta, data),
                               [op |-> "update"])
    /\ UNCHANGED notSessionVars

SessionDelete(id) ==
    /\ sessions' = SessionCall(SessionStore_delete(sessions.sled, id),
                               SessionStore_delete(sessions.redb, id),
                               [op |-> "delete"])
    /\ UNCHANGED notSessionVars

SessionUpdateDataWith(id, f) ==
    /\ sessions' = SessionCall(SledSessionStore_update_data_with(sessions.sled, id, f),
                               RedbSessionStore_update_data_with(sessions.redb, id, f),
                               [op |-> "update_data_with", id |-> id, f |-> f])
    /\ UNCHANGED notSessionVars

SessionList(limit, offset) ==
    /\ sessions' = SessionCall(
           SessionRet(sessions.sled, [tag |-> "Ok",
                                      rows |-> SessionStore_list(sessions.sled, limit, offset)]),
           SessionRet(sessions.redb, [tag |-> "Ok",
                                      rows |-> SessionStore_list(sessions.redb, limit, offset)]),
           [op |-> "list", limit |-> limit, offset |-> offset])
    /\ UNCHANGED notSessionVars

SessionNext ==
    \/ \E id \in SessionIds, meta \in SessionMetas, data \in SessionDatas :
           SessionAppend(id, meta, data)
    \/ \E id \in SessionIds, meta \in SessionMetas, data \in SessionDatas :
           SessionUpdate(id, meta, data)
    \/ \E id \in SessionIds : SessionDelete(id)
    \/ \E id \in SessionIds, f \in Callbacks : SessionUpdateDataWith(id, f)
    \/ \E limit \in LimitOptions, offset \in OffsetOptions : SessionList(limit, offset)

(***************************************************************************)
(* The summary of one chat under the calls that write its entry: the       *)
(* append of a User message (send_chat_message), the append of the         *)
(* Assistant message of a turn, and the truncations of Regenerate and      *)
(* Edit.  The messages hold text of any length, and references whose blobs *)
(* no store holds.                                                         *)
(***************************************************************************)
MaxSummaryMessages == 3

\* a text longer than the summary, and one that the [IMG] of the next part
\* carries over the end of the summary
SummaryLongText == [i \in 1..(SUMMARY_LEN + 2) |-> IF i % 7 = 0 THEN " " ELSE "x"]

SummaryNearText == SubSeq(SummaryLongText, 1, SUMMARY_LEN - 2)

SummaryImage == from_data(<<1>>)

SummaryAsset == from_data(<<2>>)

\* what a client puts into a message: nothing, text short or long, and
\* references
SummaryContents ==
    {<<>>,
     <<Text(<<"t">>)>>,
     <<Text(SummaryNearText), ImageRef(SummaryImage)>>,
     <<ImageBin(SummaryImage), AssetRef(SummaryAsset), Text(SummaryLongText)>>}

\* what a client puts in the place of the content of a message it edits
SummaryEditContents == {<<>>, <<Text(<<"t">>)>>}

SummaryInit ==
    /\ drafts = [minted |-> 0, op |-> "new"]
    /\ history = EmptyTree
    /\ appender = <<>>

SummaryIdle == drafts = [minted |-> 0, op |-> "idle"]

\* new_chat
SummaryNewChat ==
    /\ TheChat \notin DOMAIN history
    /\ history' = new_chat(history, TheChat)
    /\ drafts' = drafts
    /\ UNCHANGED <<appender, notSummaryVars>>

\* send_chat_message up to the first compare_and_swap of its append_message
SummarySend(user_content) ==
    /\ drafts.minted < MaxSummaryMessages
    /\ "user" \notin InFlight
    /\ Cardinality(InFlight) < MaxInFlight
    /\ appender' = TreeInsert(appender, "user",
                       append_get(history, TheChat,
                                  Message(<<"msg", drafts.minted + 1>>, "User",
                                          user_content, <<>>, <<>>)))
    /\ drafts' = [drafts EXCEPT !.minted = @ + 1]
    /\ UNCHANGED <<history, notSummaryVars>>

\* one pass of the compare_and_swap loop of the append_message of
\* send_chat_message
SummarySendAppend ==
    /\ "user" \in InFlight
    /\ LET r == append_cas(history, TheChat, appender["user"]) IN
       /\ history' = r.history
       /\ appender' = IF r.call.pc = "done" THEN TreeRemove(appender, "user")
                      ELSE TreeInsert(appender, "user", r.call)
    /\ drafts' = drafts
    /\ UNCHANGED notSummaryVars

\* the turn loop has the Assistant message of a model reply and reads the chat
SummaryReply ==
    /\ drafts.minted < MaxSummaryMessages
    /\ "turn" \notin InFlight
    /\ Cardinality(InFlight) < MaxInFlight
    /\ appender' = TreeInsert(appender, "turn",
                       append_get(history, TheChat,
                                  Message(<<"msg", drafts.minted + 1>>, "Assistant",
                                          <<Text(<<"r">>)>>, <<>>, <<>>)))
    /\ drafts' = [drafts EXCEPT !.minted = @ + 1]
    /\ UNCHANGED <<history, notSummaryVars>>

\* one pass of the compare_and_swap loop of the append_message of the turn
\* loop
SummaryReplyAppend ==
    /\ "turn" \in InFlight
    /\ LET r == append_cas(history, TheChat, appender["turn"]) IN
       /\ history' = r.history
       /\ appender' = IF r.call.pc = "done" THEN TreeRemove(appender, "turn")
                      ELSE TreeInsert(appender, "turn", r.call)
    /\ drafts' = drafts
    /\ UNCHANGED notSummaryVars

\* regenerate_at up to the get_chat of truncate_chat_history
SummaryRegenerate(target_id) ==
    /\ "trunc" \notin InFlight
    /\ Cardinality(InFlight) < MaxInFlight
    /\ IsSome(TreeGet(history, TheChat))
    /\ appender' = TreeInsert(appender, "trunc",
                       TruncationRead("regenerate", history, TheChat, target_id, None))
    /\ drafts' = drafts
    /\ UNCHANGED <<history, notSummaryVars>>

\* edit_message_and_regenerate up to the get_chat of edit_and_truncate_history
SummaryEdit(target_id, new_content) ==
    /\ "trunc" \notin InFlight
    /\ Cardinality(InFlight) < MaxInFlight
    /\ IsSome(TreeGet(history, TheChat))
    /\ appender' = TreeInsert(appender, "trunc",
                       TruncationRead("edit", history, TheChat, target_id,
                                      Some(new_content)))
    /\ drafts' = drafts
    /\ UNCHANGED <<history, notSummaryVars>>

\* the rest of the truncation, up to the first model request: history.insert
\* of the entry computed from the one read (the releases before it are
\* accesses to the blob stores, which do not hold the history)
SummaryTruncationWrite ==
    /\ "trunc" \in InFlight
    /\ LET t == appender["trunc"]
           res == TruncationOf(t)
       IN history' = IF TruncationWrites(t, res)
                     THEN TreeInsert(history, TheChat, res.history[TheChat])
                     ELSE history
    /\ appender' = TreeRemove(appender, "trunc")
    /\ drafts' = drafts
    /\ UNCHANGED notSummaryVars

SummaryMessageIds == {<<"msg", n>> : n \in 1..MaxSummaryMessages}

SummaryNext ==
    \/ SummaryNewChat
    \/ \E uc \in SummaryContents : SummarySend(uc)
    \/ SummarySendAppend
    \/ SummaryReply
    \/ SummaryReplyAppend
    \/ \E m \in SummaryMessageIds : SummaryRegenerate(m)
    \/ \E m \in SummaryMessageIds, uc \in SummaryEditContents : SummaryEdit(m, uc)
    \/ SummaryTruncationWrite

(***************************************************************************)
(* The item loop of stream_chat_response on a stream whose items carry     *)
(* delta.reasoning_content (the native reasoning channel), delta.content,  *)
(* both or neither.  `mixed` holds the locals of the turn and the number   *)
(* of items taken from the stream.                                         *)
(***************************************************************************)
MaxItems == 4

\* what delta.content of an item may hold: the pieces of a tool call, so
\* that the items drive the parser through each of its states
ContentPieces ==
    {<<"h", "i", " ">>, FN_NAME \o <<":", " ", "z", "m", "\n">>, FN_NAME,
     FN_ARGS \o <<":", " ", "{", "1">>, <<"}", "\n">> \o FN_EXIT}

\* what delta.reasoning_content of an item may hold: plain text, and text
\* that would be a tool call if the parser saw it
ReasoningPieces ==
    {<<"w", "h", "y">>, FN_NAME \o <<"z", "m">> \o FN_ARGS \o <<"{", "}">> \o FN_EXIT}

\* the token count of an item that reports usage
UsageCounts == {7}

\* thunk.usage, and delta.reasoning_content and delta.content of the first
\* choice (None as well when the item has no choice)
StreamItems ==
    [usage : {None} \cup {Some(u) : u \in UsageCounts},
     reasoning_content : {None} \cup {Some(t) : t \in ReasoningPieces},
     content : {None} \cup {Some(t) : t \in ContentPieces}]

Usage(usage) == [type |-> "Usage", usage |-> usage]

\* a loop that hands the native reasoning to the tool parser
on_reasoning_content_parsed(r, content) == on_content(r, content)

\* the reasoning_content branch: pushed to assistant_thinking, yielded as a
\* ReasoningDelta, then `continue`
on_reasoning_content(r, content) ==
    Yield([r EXCEPT !.assistant_thinking = @ \o content], ReasoningDelta(content))

\* one pass of `while let Some(thunk) = stream.next().await`: the usage of
\* the item, if it has one, is yielded first
stream_item(r, item) ==
    LET u == IF IsSome(item.usage) THEN Yield(r, Usage(Unwrap(item.usage))) ELSE r
    IN IF IsSome(item.reasoning_content)
       THEN on_reasoning_content(u, Unwrap(item.reasoning_content))
       ELSE IF IsSome(item.content)
            THEN on_content(u, Unwrap(item.content))
            ELSE u

MixedInit == mixed = [pc |-> "streaming", r |-> ParserStart(1), items |-> 0]

MixedIdle == mixed = [pc |-> "idle", r |-> ParserStart(0), items |-> 0]

\* stream.next() returned an item
NextItem(item) ==
    /\ mixed.pc = "streaming"
    /\ mixed.items < MaxItems
    /\ mixed' = [mixed EXCEPT !.r = stream_item(mixed.r, item), !.items = @ + 1]
    /\ UNCHANGED notMixedVars

\* stream.next() returned None
MixedEndOfStream ==
    /\ mixed.pc = "streaming"
    /\ mixed' = [mixed EXCEPT !.r = end_of_stream(mixed.r), !.pc = "flushed"]
    /\ UNCHANGED notMixedVars

MixedNext ==
    \/ \E item \in StreamItems : NextItem(item)
    \/ MixedEndOfStream

(***************************************************************************)
(* A Regenerate or Edit truncation of a chat that runs while other         *)
(* requests append to the same chat.  The truncation reads the entry       *)
(* (get_chat), computes the list to keep, and writes it back with          *)
(* history.insert; the appends are the steps of LLMProvider::append_message*)
(* (AppendGet, AppendCas).  `truncator` holds the position of the          *)
(* truncation and the entry it has read.                                   *)
(***************************************************************************)
TruncateEdits == {None, Some(<<Text(<<"e">>)>>)}

RaceInit ==
    /\ \E n \in 1..MaxPrior : history = TreeInsert(EmptyTree, TheChat, PriorEntry(n))
    /\ appender = [p \in Appenders |-> AppenderStart(p)]
    /\ \E n \in 1..MaxPrior, e \in TruncateEdits :
           truncator = [pc |-> "read", target |-> <<"old", n>>, edit |-> e, entry |-> None]

RaceIdle == truncator = [pc |-> "idle", target |-> <<"old", 0>>, edit |-> None, entry |-> None]

\* get_chat(chat_id)?.ok_or(..)
TruncateRead ==
    /\ truncator.pc = "read"
    /\ IsSome(TreeGet(history, TheChat))
    /\ truncator' = [truncator EXCEPT !.pc = "write", !.entry = TreeGet(history, TheChat)]
    /\ UNCHANGED <<appendVars, notRaceVars>>

\* what the truncation computes from the entry it has read
Truncated(t) ==
    LET read == TreeInsert(EmptyTree, TheChat, Unwrap(t.entry))
    IN IF IsSome(t.edit)
       THEN edit_and_truncate_history(read, TheChat, t.target, Unwrap(t.edit))
       ELSE truncate_chat_history(read, TheChat, t.target)

\* self.history.insert(chat_id, to_vec(&entry)): the entry computed from the
\* read one replaces whatever the chat holds now; nothing is written when
\* the target was not found or the call bailed out (the releases before it
\* are accesses to the blob stores, which do not hold the history)
TruncateWrite ==
    /\ truncator.pc = "write"
    /\ LET res == Truncated(truncator)
           found == IsSome(position(Unwrap(truncator.entry).messages, truncator.target))
       IN history' = IF found /\ res.ok
                     THEN TreeInsert(history, TheChat, res.history[TheChat])
                     ELSE history
    /\ truncator' = [truncator EXCEPT !.pc = "done"]
    /\ UNCHANGED <<appender, notRaceVars>>

RaceNext ==
    \/ AppendNext
    \/ TruncateRead
    \/ TruncateWrite

(***************************************************************************)
(* ImageTool::call / AssetTool::call step by step, on a store that other   *)
(* tasks save to, retain and release (the actions of BlobNext) between its *)
(* get and its retain.  `reexpose` holds the position of the call, the     *)
(* bytes its get returned and the content it returned.                     *)
(***************************************************************************)
ReexposeTools == {"Image", "Asset"}

\* number of calls the other tasks make on the store during the tool call
MaxReexposeOps == 3

ReexposeInit ==
    /\ BlobInit
    /\ \E t \in ReexposeTools, id \in BlobIds :
           reexpose = [pc |-> "get", tool |-> t, uuid |-> id, v |-> None, content |-> <<>>]

ReexposeIdle ==
    reexpose = [pc |-> "idle", tool |-> "Image", uuid |-> 0, v |-> None, content |-> <<>>]

\* match self.0.get(uuid)? { None => vec![Text("... does not exist.")], Some(v) => ..
ToolGet ==
    /\ reexpose.pc = "get"
    /\ LET v == BlobStorage_get(kind, store, reexpose.uuid) IN
       reexpose' = IF IsSome(v)
                   THEN [reexpose EXCEPT !.pc = "retain", !.v = v]
                   ELSE [reexpose EXCEPT !.pc = "done",
                                         !.content = IF reexpose.tool = "Image"
                                                     THEN <<Text(ImageDoesNotExist)>>
                                                     ELSE <<Text(AssetDoesNotExist)>>]
    /\ UNCHANGED <<blobVars, notReexposeVars>>

\* self.0.retain(uuid)?; vec![ImageRef(uuid, ..)] or vec![AssetRef(uuid, ..)]
ToolRetain ==
    /\ reexpose.pc = "retain"
    /\ store' = BlobStorage_retain(kind, store, reexpose.uuid).st
    /\ reexpose' = [reexpose EXCEPT !.pc = "done",
                        !.content = IF reexpose.tool = "Image"
                                    THEN <<ImageRef(reexpose.uuid)>>
                                    ELSE <<AssetRef(reexpose.uuid)>>]
    /\ UNCHANGED <<kind, oplog, notReexposeVars>>

ReexposeNext ==
    \/ Len(oplog) < MaxReexposeOps /\ BlobNext
    \/ ToolGet
    \/ ToolRetain

(***************************************************************************)
(* The specifications, one per subsystem                                   *)
(***************************************************************************)
SpecBlobInit == BlobInit /\ AppendIdle /\ ParserIdle /\ ToolsIdle /\ SocketIdle /\ ChatIdle /\ TwinIdle /\ SandboxIdle /\ AssetIdIdle /\ ResponseIdle /\ SessionIdle /\ SummaryIdle /\ MixedIdle /\ RaceIdle /\ ReexposeIdle

SpecBlobNext == BlobNext

SpecBlob == SpecBlobInit /\ [][SpecBlobNext]_vars

SpecAppendInit == AppendInit /\ BlobIdle /\ ParserIdle /\ ToolsIdle /\ SocketIdle /\ ChatIdle /\ TwinIdle /\ SandboxIdle /\ AssetIdIdle /\ ResponseIdle /\ SessionIdle /\ SummaryIdle /\ MixedIdle /\ RaceIdle /\ ReexposeIdle

SpecAppendNext == AppendNext

SpecAppend == SpecAppendInit /\ [][SpecAppendNext]_vars

SpecParserInit == ParserInit /\ BlobIdle /\ ToolsIdle /\ SocketIdle /\ ChatIdle /\ TwinIdle /\ SandboxIdle /\ AssetIdIdle /\ ResponseIdle /\ SessionIdle /\ SummaryIdle /\ MixedIdle /\ RaceIdle /\ ReexposeIdle

SpecParserNext == ParserNext

SpecParser == SpecParserInit /\ [][SpecParserNext]_vars

SpecToolsInit == ToolsInit /\ BlobIdle /\ ParserIdle /\ SocketIdle /\ ChatIdle /\ TwinIdle /\ SandboxIdle /\ AssetIdIdle /\ ResponseIdle /\ SessionIdle /\ SummaryIdle /\ MixedIdle /\ RaceIdle /\ ReexposeIdle

SpecToolsNext == ToolsNext

SpecTools == SpecToolsInit /\ [][SpecToolsNext]_vars

SpecSocketInit == SocketInit /\ BlobIdle /\ AppendIdle /\ ParserIdle /\ ToolsIdle /\ ChatIdle /\ TwinIdle /\ SandboxIdle /\ AssetIdIdle /\ ResponseIdle /\ SessionIdle /\ SummaryIdle /\ MixedIdle /\ RaceIdle /\ ReexposeIdle

SpecSocketNext == SocketNext

SpecSocket == SpecSocketInit /\ [][SpecSocketNext]_vars

SpecChatInit == ChatInit /\ BlobIdle /\ ParserIdle /\ ToolsIdle /\ SocketIdle /\ TwinIdle /\ SandboxIdle /\ AssetIdIdle /\ ResponseIdle /\ SessionIdle /\ SummaryIdle /\ MixedIdle /\ RaceIdle /\ ReexposeIdle

SpecChatNext == ChatNext

SpecChat == SpecChatInit /\ [][SpecChatNext]_vars

SpecTwinInit == TwinInit /\ BlobIdle /\ AppendIdle /\ ParserIdle /\ ToolsIdle /\ SocketIdle /\ ChatIdle /\ SandboxIdle /\ AssetIdIdle /\ ResponseIdle /\ SessionIdle /\ SummaryIdle /\ MixedIdle /\ RaceIdle /\ ReexposeIdle

SpecTwinNext == TwinNext

SpecTwin == SpecTwinInit /\ [][SpecTwinNext]_vars

SpecSandboxInit == SandboxInit /\ BlobIdle /\ AppendIdle /\ ParserIdle /\ ToolsIdle /\ SocketIdle /\ ChatIdle /\ TwinIdle /\ AssetIdIdle /\ ResponseIdle /\ SessionIdle /\ SummaryIdle /\ MixedIdle /\ RaceIdle /\ ReexposeIdle

SpecSandboxNext == SandboxNext

SpecSandbox == SpecSandboxInit /\ [][SpecSandboxNext]_vars

SpecAssetIdInit == AssetIdInit /\ BlobIdle /\ AppendIdle /\ ParserIdle /\ ToolsIdle /\ SocketIdle /\ ChatIdle /\ TwinIdle /\ SandboxIdle /\ ResponseIdle /\ SessionIdle /\ SummaryIdle /\ MixedIdle /\ RaceIdle /\ ReexposeIdle

SpecAssetIdNext == AssetIdNext

SpecAssetId == SpecAssetIdInit /\ [][SpecAssetIdNext]_vars

SpecResponseInit == ResponseInit /\ BlobIdle /\ ParserIdle /\ ToolsIdle /\ SocketIdle /\ ChatIdle /\ TwinIdle /\ SandboxIdle /\ AssetIdIdle /\ SessionIdle /\ SummaryIdle /\ MixedIdle /\ RaceIdle /\ ReexposeIdle

SpecResponseNext == ResponseNext

SpecResponse == SpecResponseInit /\ [][SpecResponseNext]_vars

SpecSessionInit == SessionInit /\ BlobIdle /\ AppendIdle /\ ParserIdle /\ ToolsIdle /\ SocketIdle /\ ChatIdle /\ TwinIdle /\ SandboxIdle /\ AssetIdIdle /\ ResponseIdle /\ SummaryIdle /\ MixedIdle /\ RaceIdle /\ ReexposeIdle

SpecSessionNext == SessionNext

SpecSession == SpecSessionInit /\ [][SpecSessionNext]_vars

SpecSummaryInit == SummaryInit /\ BlobIdle /\ ParserIdle /\ ToolsIdle /\ SocketIdle /\ ChatIdle /\ TwinIdle /\ SandboxIdle /\ AssetIdIdle /\ ResponseIdle /\ SessionIdle /\ MixedIdle /\ RaceIdle /\ ReexposeIdle

SpecSummaryNext == SummaryNext

SpecSummary == SpecSummaryInit /\ [][SpecSummaryNext]_vars

SpecMixedInit == MixedInit /\ BlobIdle /\ AppendIdle /\ ParserIdle /\ ToolsIdle /\ SocketIdle /\ ChatIdle /\ TwinIdle /\ SandboxIdle /\ AssetIdIdle /\ ResponseIdle /\ SessionIdle /\ SummaryIdle /\ RaceIdle /\ ReexposeIdle

SpecMixedNext == MixedNext

SpecMixed == SpecMixedInit /\ [][SpecMixedNext]_vars

SpecRaceInit == RaceInit /\ BlobIdle /\ ParserIdle /\ ToolsIdle /\ SocketIdle /\ ChatIdle /\ TwinIdle /\ SandboxIdle /\ AssetIdIdle /\ ResponseIdle /\ SessionIdle /\ SummaryIdle /\ MixedIdle /\ ReexposeIdle

SpecRaceNext == RaceNext

SpecRace == SpecRaceInit /\ [][SpecRaceNext]_vars

SpecReexposeInit == ReexposeInit /\ AppendIdle /\ ParserIdle /\ ToolsIdle /\ SocketIdle /\ ChatIdle /\ TwinIdle /\ SandboxIdle /\ AssetIdIdle /\ ResponseIdle /\ SessionIdle /\ SummaryIdle /\ MixedIdle /\ RaceIdle

SpecReexposeNext == ReexposeNext

SpecReexpose == SpecReexposeInit /\ [][SpecReexposeNext]_vars

(***************************************************************************)
(* Claims about append_message (SpecAppend)                                *)
(***************************************************************************)
AllAppended == \A p \in Appenders : appender[p].pc = "done"

PersistedMessages == IF TheChat \in DOMAIN history THEN history[TheChat].messages ELSE <<>>

Occurrences(seq, m) == Cardinality({i \in 1..Len(seq) : seq[i] = m})

\* C1: when all concurrent append_message calls on the chat have returned (each
\* returns Ok), the persisted message list holds every new message exactly once,
\* after all previously persisted messages.
C1_ConcurrentAppends ==
    AllAppended =>
        /\ \A p \in Appenders : Occurrences(PersistedMessages, NewMessage(p)) = 1
        /\ Len(PersistedMessages) >= NumAppenders
        /\ \A i \in 1..(Len(PersistedMessages) - NumAppenders) :
               PersistedMessages[i] = PriorMessage(i)

(***************************************************************************)
(* Observations on the call log                                            *)
(***************************************************************************)
\* number of entries of the log, among the first n, that satisfy (op, id)
RECURSIVE CountOps(_, _, _, _)
CountOps(log, n, op, id) ==
    IF n = 0 THEN 0
    ELSE CountOps(log, n - 1, op, id)
         + (IF log[n].op = op /\ log[n].id = id THEN 1 ELSE 0)

\* saves + retains - releases applied to id
AlgebraicSum(log, id) ==
    CountOps(log, Len(log), "save", id) + CountOps(log, Len(log), "retain", id)
    - CountOps(log, Len(log), "release", id)

\* a retain or release was applied to id while its data was absent
AppliedToAbsent(log, id) ==
    \E i \in 1..Len(log) :
        /\ log[i].id = id
        /\ log[i].op \in {"retain", "release"}
        /\ ~log[i].had_data

\* the calls made so far are save, retain and release calls
OnlyCounted(log) == \A i \in 1..Len(log) : log[i].op \in {"save", "retain", "release"}

RefcountMatches(st, id, k) ==
    /\ HasData(st, id) <=> (k > 0)
    /\ IF k > 0 THEN HasCounter(st, id) /\ st.rc_tree[id] = k
       ELSE ~HasCounter(st, id)

\* C3 as stated: for every id and every call sequence, with k the algebraic sum
\* of the calls on the id, the data is present iff k > 0 and the refcount is k
\* (no counter entry when k = 0).
C3_AnySequence ==
    OnlyCounted(oplog)
        => \A id \in BlobIds : RefcountMatches(store, id, AlgebraicSum(oplog, id))

\* C3 amended: the same, for the ids on which every retain and release was
\* applied while the id's data was present.
C3_RefcountIntegrity ==
    OnlyCounted(oplog)
        => \A id \in BlobIds :
               ~AppliedToAbsent(oplog, id)
                   => RefcountMatches(store, id, AlgebraicSum(oplog, id))

\* an id saved twice, retained once and released twice: one reference is left
C3_Witness ==
    \E id \in BlobIds :
        /\ OnlyCounted(oplog)
        /\ ~AppliedToAbsent(oplog, id)
        /\ CountOps(oplog, Len(oplog), "release", id) >= 2
        /\ CountOps(oplog, Len(oplog), "retain", id) >= 1
        /\ AlgebraicSum(oplog, id) = 1

\* C10: two successive saves of the same bytes return the same id, leave the
\* id's data stored (one entry, holding those bytes), and the second leaves the
\* refcount one higher than the first: 1 then 2 when the store did not know the id.
C10_SaveTwice ==
    \A i \in 1..(Len(oplog) - 1) :
        (OnlyCounted(oplog) /\ oplog[i].op = "save" /\ oplog[i + 1].op = "save" /\ oplog[i].id = oplog[i + 1].id)
        => /\ oplog[i].ret = oplog[i + 1].ret
           /\ oplog[i].data_after = Some(oplog[i].id[2])
           /\ oplog[i + 1].data_after = Some(oplog[i].id[2])
           /\ IsSome(oplog[i].rc_after) /\ IsSome(oplog[i + 1].rc_after)
           /\ Unwrap(oplog[i + 1].rc_after) = Unwrap(oplog[i].rc_after) + 1
           /\ (~oplog[i].had_data /\ ~oplog[i].had_counter)
                => Unwrap(oplog[i].rc_after) = 1 /\ Unwrap(oplog[i + 1].rc_after) = 2

(***************************************************************************)
(* Claims about the stream parser (SpecParser)                             *)
(***************************************************************************)
RECURSIVE TextOfKind(_, _)
TextOfKind(events, type) ==
    IF events = <<>> THEN <<>>
    ELSE (IF Head(events).type = type THEN Head(events).text ELSE <<>>)
             \o TextOfKind(Tail(events), type)

IsToolCallEvent(ev) == ev.type = "ToolCall"

\* the ToolCall events in order, without their minted ids
ToolCallsOf(events) ==
    LET calls == SelectSeq(events, IsToolCallEvent)
    IN [i \in 1..Len(calls) |->
           [function_name |-> calls[i].tool_use.function_name,
            args |-> calls[i].tool_use.args]]

Observed(events) ==
    [calls |-> ToolCallsOf(events),
     content |-> TextOfKind(events, "ContentDelta"),
     reasoning |-> TextOfKind(events, "ReasoningDelta"),
     tool |-> TextOfKind(events, "ToolDelta")]

\* the same stream delivered as a single chunk
UnchunkedTurn == parse_chunks(ParserStart(1), <<StreamText(desc)>>)

\* C6: however the content stream of a turn is cut into chunks, the turn yields
\* the same ToolCall events (names, args, order) and the same concatenated text
\* of ContentDelta, of ReasoningDelta and of ToolDelta events as any other
\* cutting of the same stream, in particular as the stream in a single chunk
C6_ChunkingInvariance ==
    ppc = "flushed" => Observed(parser.events) = Observed(UnchunkedTurn.events)

\* the calls a stream is made of, as the names and args that were written into it
ExpectedCalls(d) ==
    [i \in 1..Len(d.calls) |-> [function_name |-> d.calls[i].name, args |-> d.calls[i].args]]

WellFormedCalls(d) == ~d.dangling

Contains(s, c) == \E i \in 1..Len(s) : s[i] = c

\* no text before or between the calls contains the FN_TAG character
TagFreeText(d) ==
    /\ ~Contains(d.pre, FN_TAG)
    /\ \A i \in 1..Len(d.calls) : ~Contains(d.calls[i].after, FN_TAG)

\* C7 (as stated): a stream made of k well-formed calls, with ANY text before and
\* between the calls and any chunking, yields exactly k ToolCall events, the i-th
\* with the i-th name and args stripped of surrounding whitespace and colons
C7_AnyText ==
    (ppc = "flushed" /\ WellFormedCalls(desc))
        => ToolCallsOf(parser.events) = ExpectedCalls(desc)

\* C7 (amended): a stream made of k well-formed calls, with text before and
\* between the calls that does not contain the FN_TAG character, and any
\* chunking, yields exactly k ToolCall events, the i-th with the i-th name and
\* args stripped of surrounding whitespace and colons, in stream order
C7_RoundTrip ==
    (ppc = "flushed" /\ WellFormedCalls(desc) /\ TagFreeText(desc))
        => ToolCallsOf(parser.events) = ExpectedCalls(desc)

\* a turn of two calls, the first ended by FN_EXIT and followed by text, after a
\* long text, delivered in chunks of one character, has been parsed
C7_Witness ==
    /\ ppc = "flushed"
    /\ WellFormedCalls(desc) /\ TagFreeText(desc)
    /\ Len(desc.calls) = 2
    /\ desc.calls[1].term = FN_EXIT
    /\ desc.pre = LongText
    /\ plan.size = 1
    /\ Len(ToolCallsOf(parser.events)) = 2

ToolDeltaBefore(events, i) == \E j \in 1..(i - 1) : events[j].type = "ToolDelta"

\* C8: in the events of a turn, text that is not part of a tool call is a
\* ContentDelta as long as no FN_NAME has been consumed (no ToolDelta was yielded
\* yet), and a ReasoningDelta, never a ContentDelta, once the first FN_NAME has
\* been consumed, the text flushed at the end of the stream included
C8_Classification ==
    \A i \in 1..Len(parser.events) :
        /\ parser.events[i].type = "ContentDelta" => ~ToolDeltaBefore(parser.events, i)
        /\ parser.events[i].type = "ReasoningDelta" => ToolDeltaBefore(parser.events, i)

(***************************************************************************)
(* Claims about the tool batch of a turn (SpecTools)                       *)
(***************************************************************************)
IsToolResultEvent(ev) == ev.type = "ToolResult"

IsToolsMessage(m) == m.owner # "User" /\ m.owner # "Assistant"

ToolResultEvents == SelectSeq(turn.events, IsToolResultEvent)

ToolsMessages == SelectSeq(history[TheChat].messages, IsToolsMessage)

\* the appends of yielded results that have not returned yet
ResultAppendsPending ==
    IF tpc \in {"results", "done"} /\ "turn" \in DOMAIN appender THEN 1 ELSE 0

\* C9: the ToolResult events of a turn and the Tools(use_id) messages appended to
\* the history follow the order of the calls of the turn, whatever the order in
\* which the tool executions completed, and every ToolCall event of the turn
\* comes before every ToolResult event of the turn
C9_ResultsInCallOrder ==
    /\ \A k \in 1..Len(ToolResultEvents) :
           ToolResultEvents[k].tool_use = turn.assistant_tool_calls[k]
    /\ Len(ToolsMessages) = Len(ToolResultEvents) - ResultAppendsPending
    /\ \A k \in 1..Len(ToolsMessages) :
           ToolsMessages[k].owner = ToolsRole(turn.assistant_tool_calls[k].use_id)
    /\ \A i, j \in 1..Len(turn.events) :
           (turn.events[i].type = "ToolCall" /\ turn.events[j].type = "ToolResult") => i < j
    /\ tpc = "done" => Len(ToolResultEvents) = Len(turn.assistant_tool_calls)

(***************************************************************************)
(* Claims about the connection handler (SpecSocket)                        *)
(***************************************************************************)
\* C2: once the handler has processed Abort{request_id = r} for a running
\* request, it writes no further frame of that request to the socket: no event
\* that was already queued on the internal channel, and no StreamEnd
C2_NoFrameAfterAbort ==
    \A t \in DOMAIN abort_log :
        \A i \in 1..Len(socket_out) :
            socket_out[i].task = t => i <= abort_log[t]

(***************************************************************************)
(* Claims about the history and its blob references (SpecChat)             *)
(***************************************************************************)
StoreOf(c) == IF c.type \in {"ImageBin", "ImageRef"} THEN image ELSE asset

\* C4: every ImageRef or AssetRef in a persisted message of an existing chat
\* refers to a blob whose data is present and whose refcount is at least 1
C4_PersistedRefsAlive ==
    \A c \in RefsIn(history) : HasData(StoreOf(c), c.id) /\ RefCount(StoreOf(c), c.id) >= 1

RemovedContents(o) == Flatten([i \in 1..Len(o.removed) |-> o.removed[i].content])

CountRef(content, c) == Cardinality({i \in 1..Len(content) : content[i] = c})

CountReleased(released, c) == Cardinality({i \in 1..Len(released) : released[i].ref = c})

\* C5: delete_chat, regenerate truncation and edit truncation release only
\* references that occur in the messages they remove, at most once per
\* occurrence, and never physically delete a blob that a message that stays
\* persisted (same chat or another chat) still references
C5_ReleaseOnlyRemoved ==
    IsSome(last_op) =>
        LET o == Unwrap(last_op) IN
        \A k \in 1..Len(o.released) :
            /\ CountReleased(o.released, o.released[k].ref)
                   <= CountRef(RemovedContents(o), o.released[k].ref)
            /\ o.released[k].deleted => o.released[k].ref \notin o.staying

(***************************************************************************)
(* Claims about the two backends side by side (SpecTwin)                   *)
(***************************************************************************)
\* C11: on the same sequence of save / get / peek / retain / release calls from
\* an empty store, the sled store and the redb store return the same result for
\* every call and hold the same data and the same refcount for every id
C11_BackendsAgree ==
    /\ twin.sled_ret = twin.redb_ret
    /\ \A id \in BlobIds :
           /\ TreeGet(twin.sled.data_tree, id) = TreeGet(twin.redb.data_tree, id)
           /\ TreeGet(twin.sled.rc_tree, id) = TreeGet(twin.redb.rc_tree, id)

(***************************************************************************)
(* Claims about the return value of append_message (SpecAppend)            *)
(***************************************************************************)
\* C12: an append_message call whose compare-and-swap failed on all CAS_ATTEMPTS
\* attempts returns an error, and a call that returns Ok has written the entry it
\* returns: its message is in the persisted message list
C12_ExhaustedAppendFails ==
    \A p \in Appenders :
        appender[p].pc = "done" =>
            LET r == append_message_return(appender[p]) IN
            /\ appender[p].attempts = CAS_ATTEMPTS => r.tag = "Err"
            /\ r.tag = "Ok" => Occurrences(PersistedMessages, NewMessage(p)) >= 1

(***************************************************************************)
(* Claims about the shape of the persisted message lists (SpecChat)        *)
(***************************************************************************)
\* C13: the persisted message list of every non-empty chat starts with a User
\* message and holds neither two adjacent User messages nor two adjacent
\* Assistant messages
C13_Alternation ==
    \A c \in DOMAIN history :
        LET msgs == history[c].messages IN
        msgs # <<>> =>
            /\ msgs[1].owner = "User"
            /\ \A i \in 1..(Len(msgs) - 1) :
                   ~(/\ msgs[i].owner \in {"User", "Assistant"}
                     /\ msgs[i + 1].owner = msgs[i].owner)

(***************************************************************************)
(* Claims about the place of the tool results in the history (SpecTools)   *)
(***************************************************************************)
UseIdsOf(m) == {m.tool_use[k].use_id : k \in 1..Len(m.tool_use)}

\* the message at position j is a Tools message, and the message at position i
\* is the Assistant message that carries its call, with only Tools messages of
\* the same Assistant message in between
FollowsItsAssistant(msgs, i, j) ==
    /\ i < j
    /\ msgs[i].owner = "Assistant"
    /\ \A k \in (i + 1)..j :
           /\ IsToolsMessage(msgs[k])
           /\ msgs[k].owner[2] \in UseIdsOf(msgs[i])

\* C14: in the persisted chat, whatever requests on the chat are interleaved
\* with the turn, each Tools(use_id) message is preceded by the Assistant
\* message whose tool_use contains that use_id, with only other Tools messages
\* of the same assistant turn in between
C14_ToolsFollowAssistant ==
    LET msgs == history[TheChat].messages IN
    \A j \in 1..Len(msgs) :
        IsToolsMessage(msgs[j]) => \E i \in 1..(j - 1) : FollowsItsAssistant(msgs, i, j)

(***************************************************************************)
(* Claims about the frames of a failed request (SpecSocket)                *)
(***************************************************************************)
\* the task of a request has returned and the handler has forwarded all it sent
Delivered(t) ==
    /\ workers[t].pc = "exited"
    /\ connected
    /\ \A i \in 1..Len(rx) : rx[i].type = "InternalMsg" => rx[i].task # t

\* C15: once all frames of a request are delivered, every Error frame of the
\* request is followed by a StreamEnd frame of the same request, and that
\* StreamEnd is the last frame of the request
C15_ErrorThenStreamEnd ==
    \A t \in 1..Len(workers) :
        Delivered(t) =>
            \A i \in 1..Len(socket_out) :
                (socket_out[i].task = t /\ socket_out[i].event = "Error") =>
                    \E j \in (i + 1)..Len(socket_out) :
                        /\ socket_out[j].task = t
                        /\ socket_out[j].event = "StreamEnd"
                        /\ \A k \in (j + 1)..Len(socket_out) : socket_out[k].task # t

(***************************************************************************)
(* Claims about a turn without tool call (SpecParser)                      *)
(***************************************************************************)
\* the stream of the turn holds none of FN_NAME, FN_ARGS, FN_RESULT, FN_EXIT
NoSentinel(d) == d.calls = <<>> /\ ~d.dangling

\* what C16 says of a finished turn: only ContentDelta events, whose texts make
\* up the whole stream, then StreamEnd; one model request; one Assistant message
\* with content = [Text(whole stream)] and no tool_use, right after the User
\* message
PlainTurnOutcome ==
    LET evs == parser.events
        msgs == history[TheChat].messages
    IN /\ evs # <<>>
       /\ evs[Len(evs)] = StreamEnd
       /\ \A i \in 1..(Len(evs) - 1) : evs[i].type = "ContentDelta"
       /\ TextOfKind(SubSeq(evs, 1, Len(evs) - 1), "ContentDelta") = StreamText(desc)
       /\ parser.turn = 1
       /\ Len(msgs) = 2
       /\ msgs[1] = PriorMessage(1)
       /\ msgs[2].owner = "Assistant"
       /\ msgs[2].content = <<Text(StreamText(desc))>>
       /\ msgs[2].tool_use = <<>>

\* C16 (as stated): a turn whose stream holds no sentinel, the empty stream
\* included, yields only ContentDelta events that concatenate to the stream,
\* calls the model once, appends one Assistant message with content =
\* [Text(whole stream)] and empty tool_use after the User message, and ends
\* with StreamEnd
C16_AnyPlainStream ==
    (ppc = "ended" /\ NoSentinel(desc)) => PlainTurnOutcome

\* C16 (amended): the same for a turn whose stream holds no sentinel and is not
\* empty
C16_PlainTurn ==
    (ppc = "ended" /\ NoSentinel(desc) /\ StreamText(desc) # <<>>) => PlainTurnOutcome

\* a long stream without sentinel, delivered one character at a time, has been
\* yielded in several ContentDelta events, persisted and ended
C16_Witness ==
    /\ ppc = "ended"
    /\ NoSentinel(desc)
    /\ desc.pre = LongText
    /\ plan.size = 1
    /\ Len(parser.events) > 2
    /\ Len(history[TheChat].messages) = 2

(***************************************************************************)
(* Claims about the ToolDelta events of a single call (SpecParser)         *)
(***************************************************************************)
\* the stream is pre-text, FN_NAME, name, FN_ARGS, args, FN_EXIT
SingleCallStream(d) ==
    /\ ~d.dangling
    /\ Len(d.calls) = 1
    /\ d.calls[1].term = FN_EXIT
    /\ d.calls[1].after = <<>>

\* C17: for a stream made of pre-text, FN_NAME, name, FN_ARGS, args, FN_EXIT,
\* whatever its chunking, the texts of the ToolDelta events concatenate to
\* exactly FN_NAME, name, FN_ARGS, args, FN_EXIT (each byte of the tool-call
\* segment once, no pre-call text), and the ToolCall event comes after the
\* ToolDelta events
C17_ToolDeltaExactlyOnce ==
    (ppc = "flushed" /\ SingleCallStream(desc)) =>
        /\ TextOfKind(parser.events, "ToolDelta") = CallText(desc.calls[1])
        /\ \A i, j \in 1..Len(parser.events) :
               (parser.events[i].type = "ToolDelta" /\ parser.events[j].type = "ToolCall")
                   => i < j

(***************************************************************************)
(* Claims about Edit and Regenerate (SpecChat), stated on the step that    *)
(* runs the request up to its first model request                          *)
(***************************************************************************)
\* the 1-based place of the message with this id
IndexOf(msgs, id) == CHOOSE i \in 1..Len(msgs) : msgs[i].id = id

Monus(a, b) == IF a >= b THEN a - b ELSE 0

AllContents(msgs) == Flatten([i \in 1..Len(msgs) |-> msgs[i].content])

\* the step is the one in which a request of this kind that found its target
\* in the entry it read finishes its truncation
StepOf(op) ==
    /\ TruncationWrite
    /\ appender["trunc"].op = op
    /\ IsSome(position(appender["trunc"].entry.messages, appender["trunc"].target_id))

\* the messages the request read, and the place of its target among them
ReadMessages == appender["trunc"].entry.messages

TargetIndex == IndexOf(ReadMessages, appender["trunc"].target_id)

\* the messages the chat of the request holds when the request writes
MessagesAtWrite == MessagesOf(history, appender["trunc"].chat_id)

\* the releases of the request are one per reference of these messages
ReleasedOncePerRef(removed) ==
    \A c \in {ImageRef(id) : id \in ImageIds} \cup {AssetRef(id) : id \in AssetIds} :
        CountReleased(appender["trunc"].released, c) = CountRef(AllContents(removed), c)

C18_EditStep ==
    (/\ StepOf("edit")
     /\ ReadMessages[TargetIndex].owner = "User"
     /\ IsSome(position(MessagesAtWrite, appender["trunc"].target_id)))
        => LET old == MessagesAtWrite
               idx == IndexOf(old, appender["trunc"].target_id)
               new == MessagesOf(history', appender["trunc"].chat_id)
           IN /\ Len(new) = idx
              /\ \A i \in 1..(idx - 1) : new[i] = old[i]
              /\ new[idx].id = old[idx].id
              /\ new[idx].owner = old[idx].owner
              /\ new[idx].content = Unwrap(appender["trunc"].new_content)
              /\ ReleasedOncePerRef(Drop(old, idx))
              /\ Unwrap(last_op').ok

\* C18: Edit at a User message M with new content leaves every message before M
\* unchanged, keeps M with the same id and owner and the new content, removes
\* every message after M, and releases once each blob reference of the removed
\* messages, all before the turn of the Edit makes its first model request
\* (the messages are those the chat holds when the Edit writes it)
C18_EditTruncates == [][C18_EditStep]_vars

C19_EditNonUserStep ==
    /\ (StepOf("edit") /\ ReadMessages[TargetIndex].owner # "User")
           => /\ history' = history
              /\ image' = image
              /\ asset' = asset
              /\ ~Unwrap(last_op').ok
              /\ Unwrap(last_op').released = <<>>
    /\ (TruncationRelease /\ appender["trunc"].op = "edit")
           => ReadMessages[TargetIndex].owner = "User"

\* C19: Edit at a message whose owner is not User fails with an error before
\* the turn loop is entered (no model request): the messages of the chat are
\* unchanged and no blob is released
C19_EditNonUserFails == [][C19_EditNonUserStep]_vars

\* an Edit has failed on a chat whose Assistant message is followed by a User
\* message with a blob reference, which is still alive
C19_Witness ==
    /\ IsSome(last_op)
    /\ Unwrap(last_op).op = "edit"
    /\ ~Unwrap(last_op).ok
    /\ LET msgs == MessagesOf(history, Unwrap(last_op).chat_id) IN
       /\ Len(msgs) = 3
       /\ msgs[2].owner = "Assistant"
       /\ msgs[3].owner = "User"
       /\ \E i \in ImageIds : msgs[3].content = <<ImageRef(i)>> /\ HasData(image, i)

C20_RegenerateStep ==
    StepOf("regenerate")
        => LET old == ReadMessages
               idx == TargetIndex
               keep == IF old[idx].owner = "User" THEN idx ELSE idx - 1
           IN /\ MessagesOf(history', appender["trunc"].chat_id) = Take(old, keep)
              /\ minted' = minted
              /\ Unwrap(last_op').ok

\* C20: Regenerate at message M removes every message after M, removes M itself
\* exactly when M.owner is not User, leaves all earlier messages unchanged, and
\* goes on to the turn loop without appending a new User message
C20_RegenerateTruncates == [][C20_RegenerateStep]_vars

(***************************************************************************)
(* Claims about the blob writes of a sandbox run (SpecSandbox)             *)
(***************************************************************************)
\* what a call returns when it rejects what it was given before it comes to
\* the write
RejectedInput ==
    {"InvalidSchema", "InvalidSVG", "ImageEmpty", "InternalErrorCreatePixMap",
     "InternalErrorConvertPixMapToPng", "QRCodeEncodeError",
     "QRCode: Text cannot be empty", "QRCode: Unsupported format"}

\* C21: within one run at most MAX_BLOB_PUT_TRIES blob writes succeed, counting
\* save_blob for images and assets, save_svg and QRCode.save together, and every
\* write attempted after that many have succeeded fails with MaxTries, also
\* after an earlier MaxTries failure
C21_AtMostTwentyWrites ==
    /\ sandbox.writes <= MAX_BLOB_PUT_TRIES
    /\ (sandbox.before >= MAX_BLOB_PUT_TRIES /\ sandbox.last \notin RejectedInput)
           => sandbox.last = "MaxTries"

(***************************************************************************)
(* Claims about the references of a user turn (SpecChat)                   *)
(***************************************************************************)
C22_SendRetainsStep ==
    SendAppend =>
        \A i \in ImageIds :
            HasData(image, i)
                => RefCount(image', i)
                       = RefCount(image, i)
                             + CountRef(appender["user"].content.content, ImageRef(i))

\* C22: sending a user turn whose content references an uploaded image retains
\* the image once per reference, so that an image uploaded once and referenced
\* in two user turns has refcount 3 (and deleting the chat brings it to 0)
C22_SendRetains == [][C22_SendRetainsStep]_vars

(***************************************************************************)
(* Claims about the text form of an AssetId (SpecAssetId)                  *)
(***************************************************************************)
HyphenPlaces == {7, 14, 21, 28}

\* the text as is, with the hyphens removed, or with a type prefix
DocumentedForms == {"canonical", "continuous", "asset-", "image-", "asset-continuous"}

\* C23: the text of an id is 31 Base36 digits in groups of 6-6-6-6-7 separated
\* by four hyphens (offsets 6, 13, 20 and 27), and parsing the text as is, with
\* the hyphens removed, or with an asset- or image- prefix, returns the id
C23_FormatParseRoundTrip ==
    /\ codec.pc \in {"text", "parsed"} =>
           /\ Len(codec.text) = BASE36_WIDTH + 4
           /\ \A i \in 1..Len(codec.text) :
                  IF i \in HyphenPlaces THEN codec.text[i] = "-"
                  ELSE \E d \in 1..Len(Digits36) : Digits36[d] = codec.text[i]
    /\ (codec.pc = "parsed" /\ codec.form \in DocumentedForms)
           => codec.parsed = Some(codec.id)

\* an id with leading zero bytes and a large tail has been formatted and
\* parsed back from the prefixed form
C23_Witness ==
    /\ codec.pc = "parsed"
    /\ codec.form = "asset-"
    /\ codec.id[1] = 0
    /\ codec.id[ID_BYTES] = 255
    /\ codec.parsed = Some(codec.id)

(***************************************************************************)
(* Claims about the asset download path (SpecChat)                         *)
(***************************************************************************)
\* LLMProvider::get_image
get_image(k, img, ast, image_id) == BlobStorage_get(k, img, image_id)

\* LLMProvider::get_asset: reads `self.image`
get_asset(k, img, ast, asset_id) == BlobStorage_get(k, img, asset_id)

\* C24: bytes stored through save_asset are returned unchanged by get_asset of
\* the returned id, whatever the image store contains
C24_AssetRoundTrip ==
    \A d \in AssetPayloads :
        HasData(asset, from_data(d)) => get_asset(backend, image, asset, from_data(d)) = Some(d)

(***************************************************************************)
(* Claims about the requests of a closed connection (SpecSocket)           *)
(***************************************************************************)
\* the task of request t gets through its LLM call in this step: for a Chat
\* request send_chat_message appends the User message, for Regenerate and Edit
\* the history is truncated and written back
SetupCompletes(t) == workers[t].pc = "llm" /\ workers'[t].pc = "streaming"

\* the task of request t takes one more item from the model stream in this step
PollsStream(t) == workers'[t].yielded > workers[t].yielded

C25_ClosedStep ==
    ~connected => \A t \in 1..Len(workers) : ~SetupCompletes(t) /\ ~PollsStream(t)

\* C25: once the connection is closed (close frame, read error or failed send),
\* no request that was still running on it polls the model stream or writes to
\* the history any more
C25_CloseCancelsAll == [][C25_ClosedStep]_vars

(***************************************************************************)
(* Claims about the order of the frames of a request (SpecSocket)          *)
(***************************************************************************)
\* C26: the frames of one request are written to the socket in the order in
\* which its task sent the events, whatever other requests run on the same
\* connection
C26_EmissionOrder ==
    \A i, j \in 1..Len(socket_out) :
        (i < j /\ socket_out[i].task = socket_out[j].task)
            => socket_out[i].seq < socket_out[j].seq

\* three frames of one request have been written, with a frame of another
\* request between them
C26_Witness ==
    \E i, j, k, l \in 1..Len(socket_out) :
        /\ i < j /\ j < k /\ k < l
        /\ socket_out[i].task = 1 /\ socket_out[j].task = 2
        /\ socket_out[k].task = 1 /\ socket_out[l].task = 1

(***************************************************************************)
(* Claims about failures inside the loop of model requests (SpecResponse)  *)
(***************************************************************************)
HasError(events) == \E i \in 1..Len(events) : events[i].type = "Error"

\* C27: when the model stream fails, at creation or at an item, the request
\* emits an Error event and appends nothing for the failed model call; from
\* then on it makes no model call, runs no tool and leaves the chat, with
\* the messages appended earlier in the request, as it is
C27_FailureStep ==
    /\ ((\/ CreateStream("Err")
         \/ \E d \in ResponseDescs, cut \in FailCuts : StreamItemFails(d, cut))
        => /\ resp'.events[Len(resp'.events)] = ErrorEvent
           /\ history' = history
           /\ resp'.tools_run = resp.tools_run)
    /\ (HasError(resp.events)
        => /\ resp'.model_calls = resp.model_calls
           /\ resp'.tools_run = resp.tools_run
           /\ history' = history)

C27_StreamFailureStops == [][C27_FailureStep]_vars

\* the second model call of a request failed after a turn with tool calls,
\* and the request has ended
C27_Witness ==
    /\ resp.pc = "ended"
    /\ HasError(resp.events)
    /\ resp.model_calls = 2
    /\ resp.tools_run > 0
    /\ Len(history[TheChat].messages) >= 3

CallFailed(k) ==
    \/ resp.turn.assistant_tool_calls[k].function_name \notin ToolNames
    \/ resp.outcomes[k].tag = "Err"

\* the k-th call of the last turn has been answered: a ToolResult event was
\* yielded for it whose message is owned by Tools(use_id) and is in the chat
Answered(k, one_text) ==
    LET call == resp.turn.assistant_tool_calls[k]
    IN \E i \in 1..Len(resp.events) :
           /\ resp.events[i].type = "ToolResult"
           /\ resp.events[i].tool_use = call
           /\ resp.events[i].result.owner = ToolsRole(call.use_id)
           /\ one_text => /\ Len(resp.events[i].result.content) = 1
                          /\ resp.events[i].result.content[1].type = "Text"
           /\ \E j \in 1..Len(history[TheChat].messages) :
                  history[TheChat].messages[j] = resp.events[i].result

\* C28: a call whose handler returned an error, or whose tool is not
\* registered, is answered by a Tools(use_id) message with exactly one Text
\* part; the other calls of the turn are answered too, and the loop goes on
\* to another model request
C28_FailedToolsAnswered ==
    (resp.outcomes # <<>> /\ \E k \in 1..Len(resp.outcomes) : CallFailed(k))
        => /\ resp.pc \in {"results", "yielded", "request"}
           /\ resp.pc = "request"
                 => \A k \in 1..Len(resp.outcomes) : Answered(k, CallFailed(k))
           /\ resp.pc \in {"results", "yielded"}
                 => \A k \in 1..(Len(resp.outcomes) - Len(resp.results)) :
                        Answered(k, CallFailed(k))

\* a turn had a call that failed, a call of an unregistered tool and a call
\* that succeeded, and a second model request has been made after it
C28_Witness ==
    /\ resp.model_calls = 2
    /\ \E a, b, c \in 1..Len(resp.events) :
           /\ resp.events[a].type = "ToolResult"
           /\ resp.events[b].type = "ToolResult"
           /\ resp.events[c].type = "ToolResult"
           /\ resp.events[a].result.content
                  = <<Text(ToolFailed(resp.events[a].tool_use.function_name, <<"e", "r", "r">>))>>
           /\ resp.events[b].result.content
                  = <<Text(ToolNotFound(resp.events[b].tool_use.function_name))>>
           /\ Len(resp.events[c].result.content) = 2

(***************************************************************************)
(* Claims about the session stores (SpecSession)                           *)
(***************************************************************************)
SameRows(a, b, id) ==
    /\ TreeGet(a.meta, id) = TreeGet(b.meta, id)
    /\ TreeGet(a.data, id) = TreeGet(b.data, id)

\* C29: in both backends, when the callback handed to update_data_with
\* returns an error, the call returns an error and the meta row and the
\* data row of the id are as they were before the call
C29_FailedUpdateStep ==
    \A id \in SessionIds, f \in Callbacks :
        (/\ SessionUpdateDataWith(id, f)
         /\ Callback(f, TreeGet(sessions.sled.meta, id),
                     TreeGet(sessions.sled.data, id)).tag = "Err")
            => /\ sessions'.sled_ret.tag = "Err"
               /\ sessions'.redb_ret.tag = "Err"
               /\ SameRows(sessions'.sled, sessions.sled, id)
               /\ SameRows(sessions'.redb, sessions.redb, id)

C29_FailedUpdateLeavesRows == [][C29_FailedUpdateStep]_vars

\* update_data_with has just failed on a session that exists in both stores
C29_Witness ==
    /\ sessions.call.op = "update_data_with"
    /\ sessions.sled_ret.tag = "Err"
    /\ sessions.redb_ret.tag = "Err"
    /\ IsSome(TreeGet(sessions.sled.meta, sessions.call.id))
    /\ IsSome(TreeGet(sessions.redb.data, sessions.call.id))

IdsOf(rows) == {rows[i].id : i \in 1..Len(rows)}

\* the pages of `limit` rows each, from the first on, one after the other
RECURSIVE Pages(_, _, _)
Pages(st, limit, offset) ==
    IF offset >= Cardinality(DOMAIN st.meta) THEN <<>>
    ELSE SessionStore_list(st, Some(limit), Some(offset)) \o Pages(st, limit, offset + limit)

DisjointPages(st, limit) ==
    \A a, b \in 0..MaxSessions :
        a # b => IdsOf(SessionStore_list(st, Some(limit), Some(a * limit)))
                     \cap IdsOf(SessionStore_list(st, Some(limit), Some(b * limit))) = {}

ListedNewestFirst(st) ==
    LET all == SessionStore_list(st, None, None)
    IN /\ IdsOf(all) = DOMAIN st.meta
       /\ \A i \in 1..Len(all) : all[i].meta = st.meta[all[i].id]
       /\ \A i, j \in 1..Len(all) : i < j => all[i].id > all[j].id
       /\ \A limit \in LimitOptions, offset \in OffsetOptions :
              LET page == SessionStore_list(st, limit, offset)
                  from == IF IsSome(offset) THEN Unwrap(offset) ELSE 0
              IN /\ IsSome(limit) => Len(page) <= Unwrap(limit)
                 /\ \A i \in 1..Len(page) : page[i] = all[from + i]
                 /\ Len(page) = Len(all) - from
                        \/ (IsSome(limit) /\ Len(page) = Unwrap(limit))
                        \/ (from >= Len(all) /\ page = <<>>)
       /\ \A limit \in 1..MaxSessions :
              /\ DisjointPages(st, limit)
              /\ Pages(st, limit, 0) = all

\* C30: list(limit, offset) returns the sessions by descending id, without
\* the first `offset` of them and at most `limit` of them; on a store that
\* does not change, consecutive pages are disjoint and their concatenation
\* is the listing without limit and offset
C30_ListPagination ==
    /\ ListedNewestFirst(sessions.sled)
    /\ ListedNewestFirst(sessions.redb)
    /\ sessions.call.op = "list"
          => /\ sessions.sled_ret.rows
                    = SessionStore_list(sessions.sled, sessions.call.limit, sessions.call.offset)
             /\ sessions.redb_ret.rows = sessions.sled_ret.rows

\* the second page of one row has just been listed from stores of three
\* sessions: it holds the session in the middle
C30_Witness ==
    /\ sessions.call.op = "list"
    /\ sessions.call.limit = Some(1)
    /\ sessions.call.offset = Some(1)
    /\ DOMAIN sessions.sled.meta = SessionIds
    /\ IdsOf(sessions.sled_ret.rows) = {2}
    /\ IdsOf(sessions.redb_ret.rows) = {2}

(***************************************************************************)
(* Claims about the summary of a chat (SpecSummary)                        *)
(***************************************************************************)
HasUserMessage(h, chat_id) ==
    \E i \in 1..Len(MessagesOf(h, chat_id)) : MessagesOf(h, chat_id)[i].owner = "User"

\* C31: the summary of a chat is set once, from the first User message
\* appended to it (64 characters of its text, image parts as [IMG], asset
\* parts as [BIN]); no later append, edit or regenerate changes it
\* the content of the first User message of a chat that has one
FirstUserContent(h, chat_id) ==
    LET msgs == MessagesOf(h, chat_id)
    IN msgs[MinOf({i \in 1..Len(msgs) : msgs[i].owner = "User"})].content

C31_SummaryStep ==
    /\ (~HasUserMessage(history, TheChat) /\ HasUserMessage(history', TheChat))
           => history'[TheChat].summary = SummaryOf(FirstUserContent(history', TheChat))
    /\ (HasUserMessage(history, TheChat) /\ TheChat \in DOMAIN history')
           => history'[TheChat].summary = history[TheChat].summary

C31_SummarySetOnce == [][C31_SummaryStep]_vars

(***************************************************************************)
(* Claims about the Assistant message of a turn (SpecParser)               *)
(***************************************************************************)
\* the message the turn appended to the chat
PersistedTurn == history[TheChat].messages[Len(history[TheChat].messages)]

ToolUsesOf(events) ==
    LET calls == SelectSeq(events, IsToolCallEvent)
    IN [i \in 1..Len(calls) |-> calls[i].tool_use]

\* C32: the Assistant message appended at the end of a turn has tool_use
\* equal to the ToolUses parsed in the turn, in order; its content is the
\* text accumulated before any call if the turn has no tool call, and is
\* empty if it has one
C32_AssistantMessage ==
    ppc \in {"tools", "done", "ended"}
        => /\ PersistedTurn.owner = "Assistant"
           /\ PersistedTurn.tool_use = ToolUsesOf(parser.events)
           /\ PersistedTurn.content
                  = IF PersistedTurn.tool_use # <<>> \/ parser.assistant_content = <<>>
                    THEN <<>>
                    ELSE <<Text(parser.assistant_content)>>

(***************************************************************************)
(* Claims about what the parser does with the bytes of a stream            *)
(* (SpecParser)                                                            *)
(***************************************************************************)
\* the characters of the stream handed to the parser so far
FedText == SubSeq(StreamText(desc), 1, Len(StreamText(desc)) - Len(rest))

RECURSIVE DrainedText(_)
DrainedText(d) == IF d = <<>> THEN <<>> ELSE Head(d).text \o DrainedText(Tail(d))

IsTextUse(p) == p.use = "text"

IsArgsUse(p) == p.use = "args"

IsNameUse(p) == p.use = "name"

IsSentinelUse(p) == p.use = "sentinel"

IsTextEvent(ev) == ev.type \in {"ContentDelta", "ReasoningDelta"}

\* every piece taken out of the buffer has been used as the parser says:
\* the text pieces are the ContentDelta and ReasoningDelta events, one each
\* and in order, the sentinel pieces are sentinels, and the args pieces are
\* the raw args of the ToolCall events, one each and in order, each after a
\* name piece
PiecesUsed(r) ==
    LET texts == SelectSeq(r.drained, IsTextUse)
        args == SelectSeq(r.drained, IsArgsUse)
        names == SelectSeq(r.drained, IsNameUse)
        text_events == SelectSeq(r.events, IsTextEvent)
        calls == SelectSeq(r.events, IsToolCallEvent)
    IN /\ Len(texts) = Len(text_events)
       /\ \A i \in 1..Len(texts) : texts[i].text = text_events[i].text
       /\ \A i \in 1..Len(r.drained) :
              IsSentinelUse(r.drained[i])
                  => \E t \in 1..Len(FN_STOP_WORDS) : r.drained[i].text = FN_STOP_WORDS[t]
       /\ Len(args) = Len(calls)
       /\ \A i \in 1..Len(args) : StripNameOrArgs(args[i].text) = calls[i].tool_use.args
       /\ Len(names) >= 1 \/ Len(args) = 0

\* C33: the parser never fails and never drops input: for every content
\* stream and every chunking, each byte handed to it is in the buffer or has
\* been taken out of it exactly once, as ContentDelta or ReasoningDelta text,
\* as a consumed sentinel, or as the raw name or raw args of a tool call; the
\* buffer is empty once the end-of-stream flush has run
C33_EveryByteOnce ==
    /\ ppc \in {"streaming", "flushed"}
           => /\ DrainedText(parser.drained) \o parser.parse_buffer = FedText
              /\ PiecesUsed(parser)
    /\ ppc = "flushed"
           => /\ parser.parse_buffer = <<>>
              /\ DrainedText(parser.drained) = StreamText(desc)

\* a stream of a long text and two calls, the second without a terminator
\* and followed by a dangling FN_NAME, has been delivered one character at
\* a time and flushed
C33_Witness ==
    /\ ppc = "flushed"
    /\ plan = [first |-> 1, size |-> 1]
    /\ desc.pre = LongText
    /\ Len(desc.calls) = 2
    /\ desc.dangling
    /\ \E i, j, k \in 1..Len(parser.drained) :
           /\ parser.drained[i].use = "text"
           /\ parser.drained[j].use = "name"
           /\ parser.drained[k].use = "args"

(***************************************************************************)
(* Claims about the native reasoning channel (SpecMixed)                   *)
(***************************************************************************)
IsNotUsage(e) == e.type # "Usage"

\* C34: a stream item that carries the native reasoning channel is emitted
\* unchanged as one ReasoningDelta (after the Usage event of the item, if it
\* reports usage), and leaves the state of the tool parser, its buffer, the
\* current tool name and the list of parsed calls as they are, whatever
\* state the parser is in
C34_ReasoningStep ==
    \A item \in StreamItems :
        (IsSome(item.reasoning_content) /\ NextItem(item))
            => /\ Len(mixed'.r.events) > Len(mixed.r.events)
               /\ SubSeq(mixed'.r.events, 1, Len(mixed.r.events)) = mixed.r.events
               /\ SelectSeq(SubSeq(mixed'.r.events, Len(mixed.r.events) + 1,
                                   Len(mixed'.r.events)), IsNotUsage)
                      = <<ReasoningDelta(Unwrap(item.reasoning_content))>>
               /\ mixed'.r.state = mixed.r.state
               /\ mixed'.r.parse_buffer = mixed.r.parse_buffer
               /\ mixed'.r.current_tool_name = mixed.r.current_tool_name
               /\ mixed'.r.assistant_tool_calls = mixed.r.assistant_tool_calls

C34_ReasoningPassesThrough == [][C34_ReasoningStep]_vars

\* while the parser waits for the end of the args of a call, with text in
\* its buffer, an item that reports usage and whose reasoning channel holds
\* a whole tool call has just been yielded: its Usage, then the reasoning as
\* it is
C34_Witness ==
    /\ mixed.r.state = "ToolCallArgs"
    /\ mixed.r.parse_buffer # <<>>
    /\ mixed.r.assistant_tool_calls = <<>>
    /\ Len(mixed.r.events) >= 2
    /\ mixed.r.events[Len(mixed.r.events) - 1] \in {Usage(u) : u \in UsageCounts}
    /\ mixed.r.events[Len(mixed.r.events)]
           = ReasoningDelta(FN_NAME \o <<"z", "m">> \o FN_ARGS \o <<"{", "}">> \o FN_EXIT)

(***************************************************************************)
(* Claims about the persisted turn and the chunking (SpecParser)           *)
(***************************************************************************)
\* C35: the Assistant message persisted for a turn (content, reasoning and
\* tool_use) depends on the text of the stream only, not on how the stream
\* was cut into chunks: text between two tool calls is in the persisted
\* reasoning for every chunking or for none
C35_PersistedTurnByTextOnly ==
    ppc \in {"tools", "done", "ended"}
        => PersistedTurn = assistant_message(UnchunkedTurn, PersistedTurn.id)

(***************************************************************************)
(* Claims about the task table of a connection (SpecSocket)                *)
(***************************************************************************)
StillRunning(t) ==
    /\ workers[t].pc \in {"llm", "streaming"}
    /\ ~workers[t].aborted
    /\ ~workers[t].cancelled

\* C36: on a connection, every request task that is still running has its
\* own entry in the task table, under its request id, also when a request
\* id is used again while an earlier request with that id still runs or
\* while the TaskFinished of that earlier request is still in the channel
C36_RunningTaskHasEntry ==
    connected
        => \A t \in 1..Len(workers) :
               StillRunning(t) => TreeGet(tasks, workers[t].request_id) = Some(t)

(***************************************************************************)
(* Claims about truncations that race with appends (SpecRace)              *)
(***************************************************************************)
InMessages(m, msgs) == \E i \in 1..Len(msgs) : msgs[i] = m

\* C37: a message appended to the chat while a Regenerate or Edit truncation
\* of the chat is between its read and its write is not lost: the write
\* leaves in the chat every message that the truncation has not read
C37_TruncateWriteStep ==
    (truncator.pc = "write" /\ truncator'.pc = "done")
        => \A i \in 1..Len(history[TheChat].messages) :
               ~InMessages(history[TheChat].messages[i], Unwrap(truncator.entry).messages)
                   => InMessages(history[TheChat].messages[i], history'[TheChat].messages)

C37_NoLostAppend == [][C37_TruncateWriteStep]_vars

(***************************************************************************)
(* Claims about the re-expose tools under interleaving (SpecReexpose)      *)
(***************************************************************************)
\* C38: when the Image or Asset tool returns an ImageRef/AssetRef, the blob
\* of that id has its data present and a refcount of at least 1, whatever
\* other tasks did to the id between the tool's get and its retain
C38_ToolReturnStep ==
    (reexpose.pc = "retain" /\ reexpose'.pc = "done")
        => \A i \in 1..Len(reexpose'.content) :
               IsBlobRef(reexpose'.content[i])
                   => /\ HasData(store', reexpose'.content[i].id)
                      /\ RefCount(store', reexpose'.content[i].id) >= 1

C38_RefOnlyForLiveBlob == [][C38_ToolReturnStep]_vars

\* C39: in either backend and in any reachable store state, right after
\* save(x) has returned id, get(id) returns exactly x
SaveThenGet(d) ==
    LET sled_res == SledBlobStorage_save(twin.sled, d)
        redb_res == RedbBlobStorage_save(twin.redb, d)
    IN /\ SledBlobStorage_get(sled_res.st, sled_res.ret) = Some(d)
       /\ RedbBlobStorage_get(redb_res.st, redb_res.ret) = Some(d)

C39_SaveThenGet == \A d \in BlobPayloads : SaveThenGet(d)

\* C40: in both session-store backends, after any sequence of append,
\* update, update_data_with and delete calls, failed ones included, an id
\* has a meta row if and only if it has a data row
PairedRows(st) == DOMAIN st.meta = DOMAIN st.data

C40_MetaIffData == PairedRows(sessions.sled) /\ PairedRows(sessions.redb)

\* a failed update_data_with on an id without rows, in stores that hold the
\* rows of another id
C40_Witness ==
    /\ sessions.call.op = "update_data_with"
    /\ sessions.sled_ret.tag = "Err"
    /\ sessions.redb_ret.tag = "Err"
    /\ sessions.call.id \notin DOMAIN sessions.sled.meta
    /\ sessions.call.id \notin DOMAIN sessions.redb.data
    /\ DOMAIN sessions.sled.data # {}
    /\ DOMAIN sessions.redb.meta # {}

====
